---- MODULE Spec2Model ----
(***************************************************************************)
(* State-machine model of TabbedInterfaceElement (src/tabbed-interface.js, *)
(* the current class, lines 708-1494): the section parser, the Build       *)
(* (#initializeTabs inside the deferred frame of #scheduleInitialization), *)
(* #activateTab and the navigation, keyboard, hash and attribute handlers. *)
(*                                                                         *)
(* JavaScript numbers that flow into index positions are modelled in fixed *)
(* point: the number x is represented by the integer x * Scale, so that    *)
(* non-integer numbers such as 1/2 are representable.  Num(i) is the       *)
(* representation of the integer i.                                        *)
(***************************************************************************)
EXTENDS Integers, Sequences, FiniteSets, TLC

\* ------------------------------------------------------------------ bounds
\* Largest number of section headings in a host document.
MaxSections == 3
\* Longest node sequence handed to the parser on its own.
MaxNodes == 4
\* Longest run of schedulings before a paint.
MaxBurst == 3
\* Nested listener calls the script engine's stack holds.
MaxDepth == 3
\* Numbers are multiples of 1/Scale.
Scale == 2

\* ------------------------------------------------------- host content nodes
Null == "<null>"

Node(type, tag, id, shortName, text) ==
    [type |-> type, tag |-> tag, id |-> id, shortName |-> shortName, text |-> text]

Heading(tag, id, shortName) == Node("element", tag, id, shortName, "Title")
\* A heading whose content carries markup and surrounding white space.
MarkedHeading(tag, id, shortName) ==
    Node("element", tag, id, shortName, " <em>Full</em> title ")
Element(tag) == Node("element", tag, "", "", "body")
TextNode(text) == Node("text", "", "", "", text)
CommentNode == Node("comment", "", "", "", "note")

\* Heading identifiers of the sample documents, by section position.
PlainIds == <<"", "2", "2", "a">>
RichIds == <<"top", "a", "a", "2">>

PlainSection(i) == <<Heading("h2", PlainIds[i], ""), Element("p")>>

RichSection(i) ==
    IF i % 2 = 1
    THEN <<MarkedHeading("h3", RichIds[i], "Short")>>
    ELSE <<MarkedHeading("h3", RichIds[i], ""), Element("h2"), TextNode("  "),
           TextNode("words"), CommentNode, Element("a")>>

RECURSIVE Concat(_, _, _)
Concat(f(_), from, to) ==
    IF from > to THEN <<>> ELSE f(from) \o Concat(f, from + 1, to)

\* A document of k sections: "plain" is a flat run of h2 + p; "rich" starts
\* with nodes before the first heading, uses h3 as the section tag, and mixes
\* empty bodies, a heading of another level, blank and non-blank text, a
\* comment and a focusable element.
Doc(k, shape) ==
    IF shape = "plain"
    THEN Concat(PlainSection, 1, k)
    ELSE <<TextNode("intro"), Element("p")>> \o Concat(RichSection, 1, k)

Documents ==
    {Doc(k, "plain") : k \in 0..MaxSections} \cup
    {Doc(k, "rich") : k \in {0, MaxSections}}

\* The nodes the parser tells apart: section-level and other-level headings,
\* another element, non-blank and blank text, a comment.
ParseNodes ==
    {Heading("h2", "a", ""), Heading("h2", "b", ""), Heading("h3", "", ""),
     Element("p"), TextNode("words"), TextNode(" "), CommentNode}

\* Every host content of at most MaxNodes such nodes.
NodeSequences ==
    UNION {[1..n -> ParseNodes] : n \in 0..MaxNodes}

\* Elements whose tagName is in upper case, beside one whose tagName is not.
CasedNodes ==
    {Heading("H2", "a", ""), Heading("h2", "b", ""), Heading("H3", "", ""),
     Element("P")}

\* Every short host content of such elements.
CasedSequences ==
    UNION {[1..n -> CasedNodes] : n \in 1..(MaxNodes - 2)}

\* ------------------------------------------------------------ fixed point
Num(i) == i * Scale
IsInteger(x) == x % Scale = 0
\* seq[x] of JavaScript: defined only for an integer x in 0..length-1.
Has(seq, x) == IsInteger(x) /\ x >= 0 /\ x < Num(Len(seq))
At(seq, x) == seq[(x \div Scale) + 1]

\* ------------------------------------------------------------- the parser
\* String.prototype.toLowerCase on the tag names that occur.
toLowerCase(str) ==
    CASE str = "H2" -> "h2"
      [] str = "H3" -> "h3"
      [] str = "P" -> "p"
      [] OTHER -> str

\* node.tagName.toLowerCase(): tagName is in upper case for an HTML element
\* of an HTML document and as written for any other element.
TagName(node) == toLowerCase(node.tag)

IsHeadingTag(tag) == tag \in {"h1", "h2", "h3", "h4", "h5", "h6"}

\* The heading scan of #initializeTabs: the tag of the first heading element
\* in document order, Null when there is none.
RECURSIVE findHeadingTag(_, _)
findHeadingTag(nodes, k) ==
    IF k > Len(nodes) THEN Null
    ELSE IF nodes[k].type = "element" /\ IsHeadingTag(TagName(nodes[k]))
         THEN TagName(nodes[k])
         ELSE findHeadingTag(nodes, k + 1)

IsBlank(text) == text \in {"", " ", "  "}

\* The loop body without the trim() test on text nodes.
parseStep_KeepsBlank(acc, node, headingTag) ==
    IF node.type = "element"
    THEN IF TagName(node) = headingTag
         THEN [sections |-> acc.sections \o acc.current,
               current |-> <<[heading |-> node, content |-> <<>>]>>]
         ELSE IF acc.current /= <<>>
              THEN [acc EXCEPT !.current =
                      <<[@[1] EXCEPT !.content = Append(@, node)]>>]
              ELSE acc
    ELSE IF node.type = "text" /\ acc.current /= <<>>
         THEN [acc EXCEPT !.current =
                 <<[@[1] EXCEPT !.content =
                      Append(@, Node("element", "span", "", "", node.text))]>>]
         ELSE acc

\* The loop body with a heading of any level starting a section.
parseStep_AnyHeading(acc, node, headingTag) ==
    IF node.type = "element"
    THEN IF IsHeadingTag(TagName(node))
         THEN [sections |-> acc.sections \o acc.current,
               current |-> <<[heading |-> node, content |-> <<>>]>>]
         ELSE IF acc.current /= <<>>
              THEN [acc EXCEPT !.current =
                      <<[@[1] EXCEPT !.content = Append(@, node)]>>]
              ELSE acc
    ELSE IF node.type = "text" /\ ~IsBlank(node.text) /\ acc.current /= <<>>
         THEN [acc EXCEPT !.current =
                 <<[@[1] EXCEPT !.content =
                      Append(@, Node("element", "span", "", "", node.text))]>>]
         ELSE acc

\* The loop body comparing tagName with the section tag as it stands.
parseStep_CaseSensitive(acc, node, headingTag) ==
    IF node.type = "element"
    THEN IF node.tag = headingTag
         THEN [sections |-> acc.sections \o acc.current,
               current |-> <<[heading |-> node, content |-> <<>>]>>]
         ELSE IF acc.current /= <<>>
              THEN [acc EXCEPT !.current =
                      <<[@[1] EXCEPT !.content = Append(@, node)]>>]
              ELSE acc
    ELSE IF node.type = "text" /\ ~IsBlank(node.text) /\ acc.current /= <<>>
         THEN [acc EXCEPT !.current =
                 <<[@[1] EXCEPT !.content =
                      Append(@, Node("element", "span", "", "", node.text))]>>]
         ELSE acc

\* One iteration of the loop of #parseContentIntoSections; acc.current is
\* <<>> for "no current section" and <<section>> otherwise.
parseStep(acc, node, headingTag) ==
    IF node.type = "element"
    THEN IF TagName(node) = headingTag
         THEN [sections |-> acc.sections \o acc.current,
               current |-> <<[heading |-> node, content |-> <<>>]>>]
         ELSE IF acc.current /= <<>>
              THEN [acc EXCEPT !.current =
                      <<[@[1] EXCEPT !.content = Append(@, node)]>>]
              ELSE acc
    ELSE IF node.type = "text" /\ ~IsBlank(node.text) /\ acc.current /= <<>>
         THEN [acc EXCEPT !.current =
                 <<[@[1] EXCEPT !.content =
                      Append(@, Node("element", "span", "", "", node.text))]>>]
         ELSE acc

RECURSIVE parseLoop(_, _, _, _)
parseLoop(acc, nodes, k, headingTag) ==
    IF k > Len(nodes) THEN acc
    ELSE parseLoop(parseStep(acc, nodes[k], headingTag), nodes, k + 1, headingTag)

\* #parseContentIntoSections without the final flush of the open section.
parseContentIntoSections_NoFlush(nodes, headingTag) ==
    LET acc == parseLoop([sections |-> <<>>, current |-> <<>>], nodes, 1, headingTag)
    IN acc.sections

parseContentIntoSections(nodes, headingTag) ==
    LET acc == parseLoop([sections |-> <<>>, current |-> <<>>], nodes, 1, headingTag)
    IN acc.sections \o acc.current

\* ------------------------------------------------------------------ state
VARIABLES
    lightDom,       \* the host's child nodes, in document order
    hash,           \* window.location.hash without the leading '#', "" if empty
    id,             \* the host element's id attribute, "" if absent
    showHeaders,    \* presence of the show-headers attribute
    tablistAfter,   \* presence of the tablist-after attribute
    autoActivate,   \* presence of the auto-activate attribute
    defaultTab,     \* value of the default-tab attribute, Null if absent
    isConnected,    \* the element is in a document
    slotElement,    \* #slotElement is set (slotchange listener attached)
    slotChangePending,          \* a slotchange event is queued for the slot
    pendingInitializationFrame, \* #pendingInitializationFrame is not null
    frames,         \* animation-frame callbacks requested, not yet run or cancelled
    hashListenerAttached,       \* #hashListenerAttached
    tablist,        \* #tablist is not null
    tabs,           \* #tabs: the tab buttons
    tabpanels,      \* #tabpanels: the panels
    hasCustomTitle, \* #hasCustomTitle
    activeIndex,    \* #activeIndex (fixed point)
    focusedIndex,   \* #focusedIndex (fixed point)
    initialized,    \* #initialized
    container,      \* children of #container: "tablist" and "tabpanel" entries
    slotDisplay,    \* style.display of the slot: "none" or "" (content shown)
    domFocus,       \* where the document's focus is
    changeListener, \* what the host's 'tabbed-interface:change' listener does
    lastChange,     \* tabIndex of the last notification a tracking listener got
    events,         \* change notifications dispatched by the last operation
    error,          \* error raised by the last operation, "none" if none
    scrolls,        \* scrollIntoView requests made by the last operation
    op              \* name of the last operation

vars == <<lightDom, hash, id, showHeaders, tablistAfter, autoActivate,
          defaultTab, isConnected, slotElement, slotChangePending,
          pendingInitializationFrame, frames, hashListenerAttached, tablist, tabs,
          tabpanels, hasCustomTitle, activeIndex, focusedIndex, initialized,
          container, slotDisplay, domFocus, changeListener, lastChange, events, error,
          scrolls, op>>

\* The state as one record, the form the handlers below transform.  The
\* fields from events on collect what one operation emits (observed: what
\* the listener found at each notification; reported: the exception a
\* listener left to the window; depth: listener calls on the stack), so every
\* operation starts with them empty.
State ==
    [lightDom |-> lightDom, hash |-> hash, id |-> id,
     showHeaders |-> showHeaders, tablistAfter |-> tablistAfter,
     autoActivate |-> autoActivate, defaultTab |-> defaultTab,
     isConnected |-> isConnected, slotElement |-> slotElement,
     slotChangePending |-> slotChangePending,
     pendingInitializationFrame |-> pendingInitializationFrame,
     frames |-> frames,
     hashListenerAttached |-> hashListenerAttached, tablist |-> tablist,
     tabs |-> tabs, tabpanels |-> tabpanels,
     hasCustomTitle |-> hasCustomTitle, activeIndex |-> activeIndex,
     focusedIndex |-> focusedIndex, initialized |-> initialized,
     container |-> container, slotDisplay |-> slotDisplay,
     domFocus |-> domFocus, changeListener |-> changeListener,
     lastChange |-> lastChange,
     events |-> <<>>, error |-> "none", scrolls |-> 0,
     observed |-> <<>>, reported |-> "none", depth |-> 0]

\* The next state is the record r, reached by operation o.
Commit(r, o) ==
    /\ lightDom' = r.lightDom
    /\ hash' = r.hash
    /\ id' = r.id
    /\ showHeaders' = r.showHeaders
    /\ tablistAfter' = r.tablistAfter
    /\ autoActivate' = r.autoActivate
    /\ defaultTab' = r.defaultTab
    /\ isConnected' = r.isConnected
    /\ slotElement' = r.slotElement
    /\ slotChangePending' = r.slotChangePending
    /\ pendingInitializationFrame' = r.pendingInitializationFrame
    /\ frames' = r.frames
    /\ hashListenerAttached' = r.hashListenerAttached
    /\ tablist' = r.tablist
    /\ tabs' = r.tabs
    /\ tabpanels' = r.tabpanels
    /\ hasCustomTitle' = r.hasCustomTitle
    /\ activeIndex' = r.activeIndex
    /\ focusedIndex' = r.focusedIndex
    /\ initialized' = r.initialized
    /\ container' = r.container
    /\ slotDisplay' = r.slotDisplay
    /\ domFocus' = r.domFocus
    /\ changeListener' = r.changeListener
    /\ lastChange' = r.lastChange
    /\ events' = r.events
    /\ error' = r.error
    /\ scrolls' = r.scrolls
    /\ op' = o

\* The value of lastChange when no notification was received since the
\* connect.
NoChange == 0 - 1

Threw(s) == s.error /= "none"
Throw(s, e) == [s EXCEPT !.error = e]

NoFocus == [where |-> "none", index |-> 0]
OnTab(i) == [where |-> "tab", index |-> i]
InPanel(i) == [where |-> "panel", index |-> i]

\* ------------------------------------------------------------ #activateTab
\* The value of a boolean attribute: "" when present, null when absent.
Present(flag) == IF flag THEN "" ELSE Null

\* What a 'tabbed-interface:change' listener of the host page does with the
\* element: nothing, or toggle one of its boolean attributes.
ChangeListeners == {"none", "show-headers", "tablist-after"}

\* Listeners that assign the activeIndex property, and the index they assign.
ActivatingListeners == {"activeIndex = 0", "activeIndex = 1"}
ListenerTarget(listener) == IF listener = "activeIndex = 0" THEN Num(0) ELSE Num(1)

\* A listener that records the tabIndex of each notification it receives.
TrackingListener == "lastChange = event.detail.tabIndex"

\* A listener that writes the notified index back to the activeIndex
\* property.
WriteBackListener == "activeIndex = event.detail.tabIndex"

RECURSIVE attributeChangedCallback(_, _, _, _)
RECURSIVE setActiveIndex(_, _)

\* dispatchEvent's treatment of the listener's outcome r, s being the state
\* the listener was called in: an exception the listener throws is reported
\* to the window and not thrown to the caller of dispatchEvent.
reportException(s, r) ==
    [r EXCEPT !.error = s.error,
              !.reported = IF Threw(r) /\ ~Threw(s) THEN r.error ELSE @,
              !.depth = s.depth]

\* The listener runs inside dispatchEvent; the attribute it toggles reaches
\* attributeChangedCallback before dispatchEvent returns.
runChangeListener(s) ==
    CASE s.changeListener \in {"show-headers", "tablist-after"} ->
            LET present == IF s.changeListener = "show-headers"
                           THEN s.showHeaders ELSE s.tablistAfter
            IN attributeChangedCallback(
                   IF s.changeListener = "show-headers"
                   THEN [s EXCEPT !.showHeaders = ~present]
                   ELSE [s EXCEPT !.tablistAfter = ~present],
                   s.changeListener, Present(present), Present(~present))
      [] s.changeListener = TrackingListener ->
            [s EXCEPT !.lastChange = s.events[Len(s.events)].tabIndex]
      [] s.changeListener \in ActivatingListeners \cup {WriteBackListener} ->
            IF s.depth >= MaxDepth
            THEN [s EXCEPT !.reported = "RangeError"]   \* call stack exhausted
            ELSE reportException(s, setActiveIndex(
                     [s EXCEPT !.depth = @ + 1],
                     IF s.changeListener = WriteBackListener
                     THEN s.events[Len(s.events)].tabIndex
                     ELSE ListenerTarget(s.changeListener)))
      [] OTHER -> s

\* What a listener reading the element during the notification finds: the
\* activeIndex property, the selected tabs and the visible panels; and
\* whether #initialized is set at that moment.
Observation(s) ==
    [initialized |-> s.initialized,
     activeIndex |-> s.activeIndex,
     selected |-> {k \in 1..Len(s.tabs) : s.tabs[k].selected},
     visible |-> {k \in 1..Len(s.tabpanels) : ~s.tabpanels[k].hidden}]

\* dispatchEvent(new CustomEvent('tabbed-interface:change', ...)).
dispatchChange(s, index) ==
    runChangeListener(
        [s EXCEPT !.events = Append(@, [tabId |-> At(s.tabs, index).id,
                                        tabpanelId |-> At(s.tabpanels, index).id,
                                        tabIndex |-> index]),
                  !.observed = Append(@, Observation(s))])

\* #activateTab without the deactivation of the current pair.
activateTab_KeepsPrevious(s, index) ==
    IF index < 0 \/ index >= Num(Len(s.tabs)) THEN s
    ELSE IF index = s.activeIndex /\ s.initialized THEN s
    ELSE
      LET s3 == [s EXCEPT !.activeIndex = index, !.focusedIndex = index]
      IN IF ~Has(s3.tabs, index)
         THEN Throw(s3, "TypeError")
         ELSE LET s4 == [s3 EXCEPT
                           !.tabs = [@ EXCEPT ![(index \div Scale) + 1] =
                              [@ EXCEPT !.selected = TRUE, !.tabindex = 0,
                                        !.part = "tab selected"]],
                           !.tabpanels = [@ EXCEPT ![(index \div Scale) + 1] =
                              [@ EXCEPT !.hidden = FALSE]]]
              IN dispatchChange(s4, index)

\* #activateTab without the "already active" early return.
activateTab_NoActiveGuard(s, index) ==
    IF index < 0 \/ index >= Num(Len(s.tabs)) THEN s
    ELSE
      LET s1 == IF Has(s.tabs, s.activeIndex)
                THEN [s EXCEPT !.tabs = [@ EXCEPT ![(s.activeIndex \div Scale) + 1] =
                          [@ EXCEPT !.selected = FALSE, !.tabindex = -1,
                                    !.part = "tab"]]]
                ELSE s
          s2 == IF Has(s1.tabpanels, s1.activeIndex)
                THEN [s1 EXCEPT !.tabpanels = [@ EXCEPT ![(s1.activeIndex \div Scale) + 1] =
                          [@ EXCEPT !.hidden = TRUE]]]
                ELSE s1
          s3 == [s2 EXCEPT !.activeIndex = index, !.focusedIndex = index]
      IN IF ~Has(s3.tabs, index)
         THEN Throw(s3, "TypeError")
         ELSE LET s4 == [s3 EXCEPT
                           !.tabs = [@ EXCEPT ![(index \div Scale) + 1] =
                              [@ EXCEPT !.selected = TRUE, !.tabindex = 0,
                                        !.part = "tab selected"]],
                           !.tabpanels = [@ EXCEPT ![(index \div Scale) + 1] =
                              [@ EXCEPT !.hidden = FALSE]]]
              IN dispatchChange(s4, index)

activateTab(s, index) ==
    IF index < 0 \/ index >= Num(Len(s.tabs)) THEN s
    ELSE IF index = s.activeIndex /\ s.initialized THEN s
    ELSE
      LET \* deactivate the current tab and panel, when they exist
          s1 == IF Has(s.tabs, s.activeIndex)
                THEN [s EXCEPT !.tabs = [@ EXCEPT ![(s.activeIndex \div Scale) + 1] =
                          [@ EXCEPT !.selected = FALSE, !.tabindex = -1,
                                    !.part = "tab"]]]
                ELSE s
          s2 == IF Has(s1.tabpanels, s1.activeIndex)
                THEN [s1 EXCEPT !.tabpanels = [@ EXCEPT ![(s1.activeIndex \div Scale) + 1] =
                          [@ EXCEPT !.hidden = TRUE]]]
                ELSE s1
          s3 == [s2 EXCEPT !.activeIndex = index, !.focusedIndex = index]
      IN IF ~Has(s3.tabs, index)
         THEN Throw(s3, "TypeError")   \* this.#tabs[index] is undefined
         ELSE LET s4 == [s3 EXCEPT
                           !.tabs = [@ EXCEPT ![(index \div Scale) + 1] =
                              [@ EXCEPT !.selected = TRUE, !.tabindex = 0,
                                        !.part = "tab selected"]],
                           !.tabpanels = [@ EXCEPT ![(index \div Scale) + 1] =
                              [@ EXCEPT !.hidden = FALSE]]]
              IN dispatchChange(s4, index)

\* The 'focus' listener each tab gets in #initializeTabs.
onTabFocus(s, index) ==
    LET s1 == [s EXCEPT !.focusedIndex = Num(index)]
    IN IF s1.autoActivate THEN activateTab(s1, Num(index)) ELSE s1

\* The 'click' listener each tab gets in #initializeTabs, in the form a plausible
\* slip gives it: attached in manual configuration only.
onTabClick_ManualOnly(s, index) ==
    IF s.autoActivate THEN s ELSE activateTab(s, Num(index))

\* The 'click' listener each tab gets in #initializeTabs.
onTabClick(s, index) == activateTab(s, Num(index))

\* this.#tabs[x].focus(): a TypeError when there is no such tab; otherwise
\* the document focus moves to the tab, and its 'focus' listener runs unless
\* the tab already had the focus.
focusTab(s, x) ==
    IF ~Has(s.tabs, x) THEN Throw(s, "TypeError")
    ELSE IF ~s.isConnected \/ s.domFocus = OnTab(x \div Scale) THEN s
    ELSE onTabFocus([s EXCEPT !.domFocus = OnTab(x \div Scale)], x \div Scale)

\* A statement sequence: g runs only if f did not throw.
Then(s, g(_)) == IF Threw(s) THEN s ELSE g(s)

\* ------------------------------------------------------------------- Build
\* #resetInternalState that keeps the active and the focus index.
resetInternalState_KeepsIndexes(s) ==
    [s EXCEPT !.tablist = FALSE, !.tabs = <<>>, !.tabpanels = <<>>,
              !.hasCustomTitle = <<>>, !.initialized = FALSE]

resetInternalState(s) ==
    [s EXCEPT !.tablist = FALSE, !.tabs = <<>>, !.tabpanels = <<>>,
              !.hasCustomTitle = <<>>, !.activeIndex = 0, !.focusedIndex = 0,
              !.initialized = FALSE]

\* slot.assignedNodes({ flatten: true }): the host's element and text
\* children; comments are not slottable.
RECURSIVE assignedNodes(_)
assignedNodes(nodes) ==
    IF nodes = <<>> THEN <<>>
    ELSE IF Head(nodes).type \in {"element", "text"}
         THEN <<Head(nodes)>> \o assignedNodes(Tail(nodes))
         ELSE assignedNodes(Tail(nodes))

\* `${baseId}-tab-${index}` and `${baseId}-panel-${index}`.
TabId(baseId, index) == baseId \o "-tab-" \o ToString(index)
PanelId(baseId, index) == baseId \o "-panel-" \o ToString(index)

\* A base identifier generated anew by every Build.
baseIdOf_AlwaysGenerated(s, token) == token

\* this.id || `tabbed-interface-${this.#generateId()}`.
baseIdOf(s, token) == IF s.id /= "" THEN s.id ELSE token

\* The tab button #initializeTabs creates for the section at index.
\* element.textContent of an element whose innerHTML is html: the text with
\* the tags left out.
textContent(html) ==
    CASE html = " <em>Full</em> title " -> " Full title "
      [] OTHER -> html

\* String.prototype.trim for the heading texts of the sample documents.
trim(str) ==
    CASE str = " Full title " -> "Full title"
      [] str = "  " -> ""
      [] str = " 2 " -> "2"
      [] str = " a " -> "a"
      [] OTHER -> str

\* newTab that gives every tab an aria-label.
newTab_AlwaysAriaLabel(section, index, baseId) ==
    LET customTitle == section.heading.shortName
    IN [id |-> TabId(baseId, index),
        controls |-> PanelId(baseId, index),
        selected |-> (index = 0),
        tabindex |-> IF index = 0 THEN 0 ELSE -1,
        part |-> IF index = 0 THEN "tab selected" ELSE "tab",
        label |-> IF customTitle /= "" THEN customTitle ELSE section.heading.text,
        ariaLabel |-> trim(textContent(section.heading.text))]

newTab(section, index, baseId) ==
    LET customTitle == section.heading.shortName
    IN [id |-> TabId(baseId, index),
        controls |-> PanelId(baseId, index),
        selected |-> (index = 0),
        tabindex |-> IF index = 0 THEN 0 ELSE -1,
        part |-> IF index = 0 THEN "tab selected" ELSE "tab",
        label |-> IF customTitle /= "" THEN customTitle ELSE section.heading.text,
        ariaLabel |-> IF customTitle /= "" THEN trim(textContent(section.heading.text))
                                           ELSE Null]

\* The panel #initializeTabs creates for the section at index.
newPanel(section, index, baseId, showHdrs) ==
    [id |-> PanelId(baseId, index),
     labelledby |-> TabId(baseId, index),
     hidden |-> (index /= 0),
     heading |-> [tag |-> section.heading.tag,
                  id |-> section.heading.id,
                  originalId |-> section.heading.id,
                  visuallyHidden |-> (~showHdrs /\ section.heading.shortName = "")],
     content |-> section.content]

\* Number(string) for the strings the default-tab attribute takes here.
ToNumber(str) ==
    CASE str = "" -> [nan |-> FALSE, value |-> 0]
      [] str = "2" -> [nan |-> FALSE, value |-> Num(2)]
      [] str = "1.0" -> [nan |-> FALSE, value |-> Num(1)]
      [] OTHER -> [nan |-> TRUE, value |-> 0]

\* Array.prototype.findIndex over the panels: -1 when none satisfies test.
RECURSIVE findIndex(_, _, _)
findIndex(panels, test(_), k) ==
    IF k > Len(panels) THEN -1
    ELSE IF test(panels[k]) THEN k - 1
         ELSE findIndex(panels, test, k + 1)

\* #applyDefaultTab with the heading lookup tried before the numeric index.
applyDefaultTab_IdFirst(s, force) ==
    IF Len(s.tabs) = 0 THEN s
    ELSE IF ~s.initialized /\ ~force THEN s
    ELSE IF s.defaultTab = Null \/ s.defaultTab = "" THEN activateTab(s, Num(0))
    ELSE
      LET numericIndex == ToNumber(s.defaultTab)
          matches(panel) == panel.heading.id = s.defaultTab
          matchedIndex == findIndex(s.tabpanels, matches, 1)
      IN IF matchedIndex /= -1
         THEN activateTab(s, Num(matchedIndex))
         ELSE IF /\ ~numericIndex.nan
                 /\ IsInteger(numericIndex.value)
                 /\ numericIndex.value >= 0
                 /\ numericIndex.value < Num(Len(s.tabs))
              THEN activateTab(s, numericIndex.value)
              ELSE activateTab(s, Num(0))

applyDefaultTab(s, force) ==
    IF Len(s.tabs) = 0 THEN s
    ELSE IF ~s.initialized /\ ~force THEN s
    ELSE IF s.defaultTab = Null \/ s.defaultTab = "" THEN activateTab(s, Num(0))
    ELSE
      LET numericIndex == ToNumber(s.defaultTab)
          matches(panel) ==
              LET originalId == IF panel.heading.originalId /= ""
                                THEN panel.heading.originalId
                                ELSE panel.heading.id
              IN originalId = s.defaultTab \/ panel.heading.id = s.defaultTab
          matchedIndex == findIndex(s.tabpanels, matches, 1)
      IN IF /\ ~numericIndex.nan
            /\ IsInteger(numericIndex.value)
            /\ numericIndex.value >= 0
            /\ numericIndex.value < Num(Len(s.tabs))
         THEN activateTab(s, numericIndex.value)
         ELSE IF matchedIndex /= -1
              THEN activateTab(s, Num(matchedIndex))
              ELSE activateTab(s, Num(0))

MapIndexed(seq, f(_, _)) == [k \in 1..Len(seq) |-> f(seq[k], k - 1)]

\* #initializeTabs that marks the widget initialized before it applies the
\* default tab.
initializeTabs_InitializedFirst(s, token) ==
    IF ~s.slotElement THEN s
    ELSE
      LET r == resetInternalState(s)
          slottedNodes == assignedNodes(r.lightDom)
          headingTag == findHeadingTag(slottedNodes, 1)
          sections == parseContentIntoSections(slottedNodes, headingTag)
          passThrough == [r EXCEPT !.container = <<>>, !.slotDisplay = "",
                                   !.domFocus = NoFocus]
          baseId == baseIdOf(r, token)
          tab(section, index) == newTab(section, index, baseId)
          panel(section, index) == newPanel(section, index, baseId, r.showHeaders)
          panelEntry(section, index) == "tabpanel"
          built == [r EXCEPT
                      !.slotDisplay = "none",
                      !.id = baseId,
                      !.tablist = TRUE,
                      !.tabs = MapIndexed(sections, tab),
                      !.tabpanels = MapIndexed(sections, panel),
                      !.hasCustomTitle =
                          [k \in 1..Len(sections) |-> sections[k].heading.shortName /= ""],
                      !.container =
                          IF r.tablistAfter
                          THEN MapIndexed(sections, panelEntry) \o <<"tablist">>
                          ELSE <<"tablist">> \o MapIndexed(sections, panelEntry),
                      !.domFocus = NoFocus]
          applied == applyDefaultTab([built EXCEPT !.initialized = TRUE], TRUE)
      IN IF headingTag = Null THEN passThrough
         ELSE IF Len(sections) = 0 THEN passThrough
         ELSE [applied EXCEPT !.initialized = TRUE,
                              !.focusedIndex = applied.activeIndex]

initializeTabs(s, token) ==
    IF ~s.slotElement THEN s
    ELSE
      LET r == resetInternalState(s)
          slottedNodes == assignedNodes(r.lightDom)
          headingTag == findHeadingTag(slottedNodes, 1)
          sections == parseContentIntoSections(slottedNodes, headingTag)
          passThrough == [r EXCEPT !.container = <<>>, !.slotDisplay = "",
                                   !.domFocus = NoFocus]
          baseId == baseIdOf(r, token)
          tab(section, index) == newTab(section, index, baseId)
          panel(section, index) == newPanel(section, index, baseId, r.showHeaders)
          panelEntry(section, index) == "tabpanel"
          built == [r EXCEPT
                      !.slotDisplay = "none",
                      !.id = baseId,
                      !.tablist = TRUE,
                      !.tabs = MapIndexed(sections, tab),
                      !.tabpanels = MapIndexed(sections, panel),
                      !.hasCustomTitle =
                          [k \in 1..Len(sections) |-> sections[k].heading.shortName /= ""],
                      !.container =
                          IF r.tablistAfter
                          THEN MapIndexed(sections, panelEntry) \o <<"tablist">>
                          ELSE <<"tablist">> \o MapIndexed(sections, panelEntry),
                      !.domFocus = NoFocus]
          applied == applyDefaultTab(built, TRUE)
      IN IF headingTag = Null THEN passThrough
         ELSE IF Len(sections) = 0 THEN passThrough
         ELSE [applied EXCEPT !.initialized = TRUE,
                              !.focusedIndex = applied.activeIndex]

\* ------------------------------------------------------------------- hash
RECURSIVE hashScan(_, _)
hashScan(s, i) ==
    IF i >= Len(s.tabpanels) THEN s
    ELSE LET heading == s.tabpanels[i + 1].heading
         IN IF heading.id = s.hash \/ heading.originalId = s.hash
            THEN LET a == activateTab(s, Num(i))
                 IN IF s.tablist THEN [a EXCEPT !.scrolls = @ + 1] ELSE a
            ELSE hashScan(s, i + 1)

\* #handleHashChange that activates the last matching panel.
handleHashChange_LastMatch(s) ==
    IF s.hash = "" \/ ~s.initialized THEN s
    ELSE LET matching == {k \in 0..(Len(s.tabpanels) - 1) :
                             \/ s.tabpanels[k + 1].heading.id = s.hash
                             \/ s.tabpanels[k + 1].heading.originalId = s.hash}
         IN IF matching = {} THEN s
            ELSE LET i == CHOOSE k \in matching : \A j \in matching : j <= k
                     a == activateTab(s, Num(i))
                 IN IF s.tablist THEN [a EXCEPT !.scrolls = @ + 1] ELSE a

\* #handleHashChange without the empty-fragment guard.
handleHashChange_NoEmptyGuard(s) ==
    IF ~s.initialized THEN s ELSE hashScan(s, 0)

handleHashChange(s) ==
    IF s.hash = "" \/ ~s.initialized THEN s ELSE hashScan(s, 0)

\* The window's hashchange event: delivered to #boundHashChange while the
\* listener is attached.
hashChangeEvent(s) == IF s.hashListenerAttached THEN handleHashChange(s) ELSE s

\* ---------------------------------------------------- deferred Build frame
\* The frame callback without the evaluation of the URL fragment.
initializationFrame_NoHash(s, token) ==
    LET s1 == initializeTabs([s EXCEPT !.pendingInitializationFrame = FALSE], token)
    IN IF Len(s1.tabs) = 0
       THEN [s1 EXCEPT !.hashListenerAttached = FALSE]
       ELSE [s1 EXCEPT !.hashListenerAttached = TRUE]

\* The frame callback without the removal of the hashchange listener.
initializationFrame_KeepsListener(s, token) ==
    LET s1 == initializeTabs([s EXCEPT !.pendingInitializationFrame = FALSE], token)
    IN IF Len(s1.tabs) = 0
       THEN s1
       ELSE handleHashChange([s1 EXCEPT !.hashListenerAttached = TRUE])

\* The body of the callback #scheduleInitialization hands to
\* requestAnimationFrame.
initializationFrame(s, token) ==
    LET s1 == initializeTabs([s EXCEPT !.pendingInitializationFrame = FALSE], token)
    IN IF Len(s1.tabs) = 0
       THEN [s1 EXCEPT !.hashListenerAttached = FALSE]
       ELSE handleHashChange([s1 EXCEPT !.hashListenerAttached = TRUE])

\* cancelAnimationFrame(#pendingInitializationFrame).
cancelAnimationFrame(s) == [s EXCEPT !.frames = @ - 1]

\* #scheduleInitialization that requests a frame without cancelling the
\* pending one.
scheduleInitialization_NoCancel(s) ==
    [s EXCEPT !.pendingInitializationFrame = TRUE, !.frames = @ + 1]

\* cancelAnimationFrame of the pending frame, then requestAnimationFrame.
scheduleInitialization(s) ==
    LET cancelled == IF s.pendingInitializationFrame THEN cancelAnimationFrame(s)
                                                     ELSE s
    IN [cancelled EXCEPT !.pendingInitializationFrame = TRUE, !.frames = @ + 1]

\* ------------------------------------------------------------- public API
setActiveIndex(s, index) ==
    IF index >= 0 /\ index < Num(Len(s.tabs)) THEN activateTab(s, index) ELSE s

\* next() with the destination computed from the focus index.
next_FromFocus(s) ==
    IF Len(s.tabs) = 0 THEN s
    ELSE LET nextIndex == (s.focusedIndex + Num(1)) % Num(Len(s.tabs))
             focus(t) == focusTab(t, nextIndex)
         IN Then(activateTab(s, nextIndex), focus)

\* next() without the empty-list guard: the index is NaN when there is no
\* tab, and focus() is called on undefined.
next_Unguarded(s) ==
    IF Len(s.tabs) = 0 THEN Throw(s, "TypeError")
    ELSE LET nextIndex == (s.activeIndex + Num(1)) % Num(Len(s.tabs))
             focus(t) == focusTab(t, nextIndex)
         IN Then(activateTab(s, nextIndex), focus)

next(s) ==
    IF Len(s.tabs) = 0 THEN s
    ELSE LET nextIndex == (s.activeIndex + Num(1)) % Num(Len(s.tabs))
             focus(t) == focusTab(t, nextIndex)
         IN Then(activateTab(s, nextIndex), focus)

previous(s) ==
    IF Len(s.tabs) = 0 THEN s
    ELSE LET prevIndex == (s.activeIndex - Num(1) + Num(Len(s.tabs))) % Num(Len(s.tabs))
             focus(t) == focusTab(t, prevIndex)
         IN Then(activateTab(s, prevIndex), focus)

first(s) ==
    IF Len(s.tabs) = 0 THEN s
    ELSE LET focus(t) == focusTab(t, Num(0))
         IN Then(activateTab(s, Num(0)), focus)

last(s) ==
    IF Len(s.tabs) = 0 THEN s
    ELSE LET lastIndex == Num(Len(s.tabs) - 1)
             focus(t) == focusTab(t, lastIndex)
         IN Then(activateTab(s, lastIndex), focus)

\* --------------------------------------------------------------- keyboard
\* #navigateNext that activates in manual configuration too.
navigateNext_AlwaysActivates(s) ==
    IF Len(s.tabs) = 0 THEN s
    ELSE LET currentFocus == IF s.autoActivate THEN s.activeIndex ELSE s.focusedIndex
             nextIndex == (currentFocus + Num(1)) % Num(Len(s.tabs))
             focus(t) == focusTab(t, nextIndex)
         IN Then(activateTab(s, nextIndex), focus)

navigateNext(s) ==
    IF Len(s.tabs) = 0 THEN s
    ELSE LET currentFocus == IF s.autoActivate THEN s.activeIndex ELSE s.focusedIndex
             nextIndex == (currentFocus + Num(1)) % Num(Len(s.tabs))
             focus(t) == focusTab(t, nextIndex)
         IN Then(IF s.autoActivate THEN activateTab(s, nextIndex)
                 ELSE [s EXCEPT !.focusedIndex = nextIndex], focus)

navigatePrevious(s) ==
    IF Len(s.tabs) = 0 THEN s
    ELSE LET currentFocus == IF s.autoActivate THEN s.activeIndex ELSE s.focusedIndex
             prevIndex == (currentFocus - Num(1) + Num(Len(s.tabs))) % Num(Len(s.tabs))
             focus(t) == focusTab(t, prevIndex)
         IN Then(IF s.autoActivate THEN activateTab(s, prevIndex)
                 ELSE [s EXCEPT !.focusedIndex = prevIndex], focus)

navigateFirst(s) ==
    IF Len(s.tabs) = 0 THEN s
    ELSE LET focus(t) == focusTab(t, Num(0))
         IN Then(IF s.autoActivate THEN activateTab(s, Num(0))
                 ELSE [s EXCEPT !.focusedIndex = Num(0)], focus)

navigateLast(s) ==
    IF Len(s.tabs) = 0 THEN s
    ELSE LET lastIndex == Num(Len(s.tabs) - 1)
             focus(t) == focusTab(t, lastIndex)
         IN Then(IF s.autoActivate THEN activateTab(s, lastIndex)
                 ELSE [s EXCEPT !.focusedIndex = lastIndex], focus)

FocusableTags == {"a", "button", "input", "textarea", "select", "details"}

\* panel.querySelector('a, button, input, ...') finds an element.
hasFocusable(panel) ==
    \E k \in 1..Len(panel.content) : panel.content[k].tag \in FocusableTags

\* The Enter / Space branch of #handleKeydown.
activateFocused(s) ==
    LET s1 == IF ~s.autoActivate THEN activateTab(s, s.focusedIndex) ELSE s
        intoPanel(t) ==
            IF ~Has(t.tabpanels, t.activeIndex)
            THEN Throw(t, "TypeError")      \* panel is undefined
            ELSE IF hasFocusable(At(t.tabpanels, t.activeIndex))
                 THEN [t EXCEPT !.domFocus = InPanel(t.activeIndex \div Scale)]
                 ELSE t
    IN Then(s1, intoPanel)

Keys == {"ArrowLeft", "ArrowUp", "ArrowRight", "ArrowDown", "Home", "End",
         "Enter", " ", "Tab"}

\* The 'keydown' listener of the tab at tabIndex; like the source, it never
\* reads tabIndex.
handleKeydown(s, key, tabIndex) ==
    CASE key \in {"ArrowLeft", "ArrowUp"} -> navigatePrevious(s)
      [] key \in {"ArrowRight", "ArrowDown"} -> navigateNext(s)
      [] key = "Home" -> navigateFirst(s)
      [] key = "End" -> navigateLast(s)
      [] key \in {"Enter", " "} -> activateFocused(s)
      [] OTHER -> s

\* ------------------------------------------------------------- attributes
updateHeaderVisibility(s) ==
    [s EXCEPT !.tabpanels =
        [k \in 1..Len(s.tabpanels) |->
            [s.tabpanels[k] EXCEPT !.heading.visuallyHidden =
                ~s.showHeaders /\ ~s.hasCustomTitle[k]]]]

RECURSIVE without(_, _)
without(seq, x) ==
    IF seq = <<>> THEN <<>>
    ELSE IF Head(seq) = x THEN without(Tail(seq), x)
         ELSE <<Head(seq)>> \o without(Tail(seq), x)

updateTablistPosition(s) ==
    IF ~s.tablist THEN s
    ELSE LET rest == without(s.container, "tablist")
         IN [s EXCEPT !.container = IF s.tablistAfter THEN rest \o <<"tablist">>
                                    ELSE <<"tablist">> \o rest]

\* attributeChangedCallback that applies the default tab again after a
\* header-visibility or position change.
attributeChangedCallback_Reapplies(s, name, oldValue, newValue) ==
    IF oldValue = newValue \/ ~s.initialized THEN s
    ELSE CASE name = "show-headers" -> applyDefaultTab(updateHeaderVisibility(s), FALSE)
           [] name = "tablist-after" -> applyDefaultTab(updateTablistPosition(s), FALSE)
           [] name = "default-tab" -> applyDefaultTab(s, FALSE)
           [] name = "auto-activate" -> [s EXCEPT !.focusedIndex = s.activeIndex]
           [] OTHER -> s

\* attributeChangedCallback without the 'default-tab' case.
attributeChangedCallback_DefaultTabIgnored(s, name, oldValue, newValue) ==
    IF oldValue = newValue \/ ~s.initialized THEN s
    ELSE CASE name = "show-headers" -> updateHeaderVisibility(s)
           [] name = "tablist-after" -> updateTablistPosition(s)
           [] name = "auto-activate" -> [s EXCEPT !.focusedIndex = s.activeIndex]
           [] OTHER -> s

\* attributeChangedCallback without the 'auto-activate' case.
attributeChangedCallback_NoRealign(s, name, oldValue, newValue) ==
    IF oldValue = newValue \/ ~s.initialized THEN s
    ELSE CASE name = "show-headers" -> updateHeaderVisibility(s)
           [] name = "tablist-after" -> updateTablistPosition(s)
           [] name = "default-tab" -> applyDefaultTab(s, FALSE)
           [] OTHER -> s

\* s already holds the new attribute value.
attributeChangedCallback(s, name, oldValue, newValue) ==
    IF oldValue = newValue \/ ~s.initialized THEN s
    ELSE CASE name = "show-headers" -> updateHeaderVisibility(s)
           [] name = "tablist-after" -> updateTablistPosition(s)
           [] name = "default-tab" -> applyDefaultTab(s, FALSE)
           [] name = "auto-activate" -> [s EXCEPT !.focusedIndex = s.activeIndex]
           [] OTHER -> s

\* ------------------------------------------------------ defaultTab property
\* Script values assigned to the defaultTab property.
JsValue(type, num, str) == [type |-> type, num |-> num, str |-> str]
JsNull == JsValue("null", 0, "")
JsUndefined == JsValue("undefined", 0, "")
JsNumber(n) == JsValue("number", n, "")
JsString(str) == JsValue("string", 0, str)

\* String(value).
String(value) ==
    CASE value.type = "null" -> "null"
      [] value.type = "undefined" -> "undefined"
      [] value.type = "number" -> ToString(value.num)
      [] OTHER -> value.str

\* setAttribute('default-tab', newValue), or removeAttribute when newValue is
\* Null, with the attributeChangedCallback the platform makes for it.
writeDefaultTab(s, newValue) ==
    attributeChangedCallback([s EXCEPT !.defaultTab = newValue],
                             "default-tab", s.defaultTab, newValue)

\* get defaultTab.
getDefaultTab(s) ==
    IF s.defaultTab = Null THEN JsNull ELSE JsString(s.defaultTab)

\* set defaultTab that stores the string form as it is.
setDefaultTab_NoTrim(s, value) ==
    IF value.type \in {"null", "undefined"} THEN writeDefaultTab(s, Null)
    ELSE LET stringValue == String(value)
         IN IF stringValue = "" THEN writeDefaultTab(s, Null)
            ELSE writeDefaultTab(s, stringValue)

\* set defaultTab.
setDefaultTab(s, value) ==
    IF value.type \in {"null", "undefined"} THEN writeDefaultTab(s, Null)
    ELSE LET stringValue == trim(String(value))
         IN IF stringValue = "" THEN writeDefaultTab(s, Null)
            ELSE writeDefaultTab(s, stringValue)

\* -------------------------------------------------------------- lifecycle
\* #render, as far as the state goes: the shadow tree is rebuilt with an
\* empty container and a new, hidden slot that carries the slotchange
\* listener; a slot that receives assigned nodes gets a slotchange event.
render(s) ==
    [s EXCEPT !.slotElement = TRUE, !.container = <<>>, !.slotDisplay = "none",
              !.domFocus = NoFocus,
              !.slotChangePending = (assignedNodes(s.lightDom) /= <<>>)]

connectedCallback(s) ==
    scheduleInitialization(render([s EXCEPT !.isConnected = TRUE]))

\* disconnectedCallback that leaves the pending frame requested.
disconnectedCallback_NoCancel(s) ==
    resetInternalState(
        [s EXCEPT !.isConnected = FALSE, !.domFocus = NoFocus,
                  !.hashListenerAttached = FALSE,
                  !.pendingInitializationFrame = FALSE,
                  !.slotElement = FALSE, !.slotChangePending = FALSE])

disconnectedCallback(s) ==
    LET cancelled == IF s.pendingInitializationFrame THEN cancelAnimationFrame(s)
                                                     ELSE s
    IN resetInternalState(
           [cancelled EXCEPT !.isConnected = FALSE, !.domFocus = NoFocus,
                             !.hashListenerAttached = FALSE,
                             !.pendingInitializationFrame = FALSE,
                             !.slotElement = FALSE, !.slotChangePending = FALSE])

\* #onSlotChange that schedules nothing.
onSlotChange_Ignores(s) == s

onSlotChange(s) ==
    IF ~s.isConnected THEN s ELSE scheduleInitialization(s)

\* ------------------------------------------------------------ input sets
\* Tokens #generateId can return, already prefixed.
GeneratedIds == {"tabbed-interface-k3x9a", "tabbed-interface-p07zq"}
HostIds == {"", "host"}
DefaultTabValues == {Null, "", "2", "a", "1.0"}
AssignedValues ==
    {JsNull, JsUndefined, JsNumber(2), JsString(""), JsString("  "),
     JsString("2"), JsString(" 2 "), JsString("a"), JsString(" a ")}
Hashes == {"", "2"}
\* Numbers assigned to activeIndex: -1 up to MaxSections in steps of 1/Scale.
InputNumbers == (-Scale)..Num(MaxSections)

\* ------------------------------------------------------------------- Init
\* The fields of a newly constructed element.
Constructed ==
    /\ hash = ""
    /\ showHeaders = FALSE
    /\ tablistAfter = FALSE
    /\ autoActivate = FALSE
    /\ defaultTab = Null
    /\ isConnected = FALSE
    /\ slotElement = FALSE
    /\ slotChangePending = FALSE
    /\ pendingInitializationFrame = FALSE
    /\ frames = 0
    /\ hashListenerAttached = FALSE
    /\ tablist = FALSE
    /\ tabs = <<>>
    /\ tabpanels = <<>>
    /\ hasCustomTitle = <<>>
    /\ activeIndex = 0
    /\ focusedIndex = 0
    /\ initialized = FALSE
    /\ container = <<>>
    /\ slotDisplay = "none"
    /\ domFocus = NoFocus
    /\ changeListener = "none"
    /\ lastChange = NoChange
    /\ events = <<>>
    /\ error = "none"
    /\ scrolls = 0
    /\ op = "new"

Init ==
    /\ lightDom \in Documents
    /\ id \in HostIds
    /\ Constructed

\* An element with an id over any short node sequence.
ParseInit ==
    /\ lightDom \in NodeSequences \cup CasedSequences
    /\ id = "host"
    /\ Constructed

\* ---------------------------------------------------------------- actions
\* The element is inserted into a document.
Connect ==
    /\ ~isConnected
    /\ Commit(connectedCallback([State EXCEPT !.lastChange = NoChange]), "connect")

\* The element is removed from its document.
Disconnect ==
    /\ isConnected
    /\ Commit(disconnectedCallback([State EXCEPT !.lastChange = NoChange]),
              "disconnect")

\* The host replaces the element's children; a rendered slot whose assigned
\* nodes change gets a slotchange event.
ContentChange ==
    \E doc \in Documents :
        /\ doc /= lightDom
        /\ Commit([State EXCEPT
                     !.lightDom = doc,
                     !.slotChangePending =
                         @ \/ (slotElement /\ assignedNodes(doc) /= assignedNodes(lightDom))],
                  "content")

\* The queued slotchange event is delivered.
SlotChange ==
    /\ slotChangePending
    /\ LET s == [State EXCEPT !.slotChangePending = FALSE]
       IN Commit(IF slotElement THEN onSlotChange(s) ELSE s, "slotchange")

\* The browser runs a requested animation-frame callback, the Build, before
\* the next paint.
AnimationFrame ==
    /\ frames > 0
    /\ \E token \in GeneratedIds :
           Commit(initializationFrame([State EXCEPT !.frames = @ - 1], token), "build")

SetActiveIndex ==
    \E index \in InputNumbers :
        Commit(setActiveIndex(State, index), "activeIndex")

CallNext == Commit(next(State), "next")
CallPrevious == Commit(previous(State), "previous")
CallFirst == Commit(first(State), "first")
CallLast == Commit(last(State), "last")

\* A 'click' event on tab i.
ClickTab ==
    \E i \in 0..(Len(tabs) - 1) :
        Commit(onTabClick(State, i), "click")

\* Tab i receives the document focus from the user.
FocusTab ==
    \E i \in 0..(Len(tabs) - 1) :
        /\ isConnected
        /\ domFocus /= OnTab(i)
        /\ Commit(onTabFocus([State EXCEPT !.domFocus = OnTab(i)], i),
                  "focus")

\* The document focus leaves the widget.
Blur ==
    /\ domFocus /= NoFocus
    /\ Commit([State EXCEPT !.domFocus = NoFocus], "blur")

\* A key is pressed while a tab has the document focus.
KeyDown ==
    \E key \in Keys :
        /\ domFocus.where = "tab"
        /\ Commit(handleKeydown(State, key, domFocus.index),
                  "keydown")

\* The URL fragment changes; the hashchange listener runs when attached.
HashChange ==
    \E h \in Hashes :
        /\ h /= hash
        /\ LET s == [State EXCEPT !.hash = h]
           IN Commit(hashChangeEvent(s), "hashchange")

\* The host page registers a listener for the change notification.
AddChangeListener ==
    \E l \in ChangeListeners \ {"none"} :
        /\ changeListener = "none"
        /\ Commit([State EXCEPT !.changeListener = l], "listen")

\* The host page registers a listener that activates a tab of its choice.
AddActivatingListener ==
    \E l \in ActivatingListeners :
        /\ changeListener = "none"
        /\ Commit([State EXCEPT !.changeListener = l], "listen")

\* The host page registers a tracking listener on the new element, before
\* it connects it.
AddTrackingListener ==
    /\ op = "new"
    /\ Commit([State EXCEPT !.changeListener = TrackingListener], "listen")

\* The host page registers a listener that writes the notified index back.
AddWriteBackListener ==
    /\ changeListener = "none"
    /\ Commit([State EXCEPT !.changeListener = WriteBackListener], "listen")

SetShowHeaders ==
    LET s == [State EXCEPT !.showHeaders = ~showHeaders]
    IN Commit(attributeChangedCallback(s, "show-headers", Present(showHeaders),
                                       Present(~showHeaders)),
              "show-headers")

SetTablistAfter ==
    LET s == [State EXCEPT !.tablistAfter = ~tablistAfter]
    IN Commit(attributeChangedCallback(s, "tablist-after", Present(tablistAfter),
                                       Present(~tablistAfter)),
              "tablist-after")

SetAutoActivate ==
    LET s == [State EXCEPT !.autoActivate = ~autoActivate]
    IN Commit(attributeChangedCallback(s, "auto-activate", Present(autoActivate),
                                       Present(~autoActivate)),
              "auto-activate")

SetDefaultTab ==
    \E value \in DefaultTabValues :
        /\ value /= defaultTab
        /\ LET s == [State EXCEPT !.defaultTab = value]
           IN Commit(attributeChangedCallback(s, "default-tab", defaultTab, value),
                     "default-tab")

AssignDefaultTab ==
    \E value \in AssignedValues :
        Commit(setDefaultTab(State, value), "defaultTab")

\* Interaction: a widget over fixed host content that is connected, built,
\* operated through every input route, and disconnected.
Next ==
    \/ Connect
    \/ Disconnect
    \/ SlotChange
    \/ AnimationFrame
    \/ SetActiveIndex
    \/ CallNext
    \/ CallPrevious
    \/ CallFirst
    \/ CallLast
    \/ ClickTab
    \/ FocusTab
    \/ Blur
    \/ KeyDown
    \/ HashChange
    \/ SetAutoActivate

Spec == Init /\ [][Next]_vars

\* Builds and rebuilds: the host content, the default-tab directive and the
\* URL fragment change around the deferred Build.
BuildNext ==
    \/ Connect
    \/ Disconnect
    \/ ContentChange
    \/ SlotChange
    \/ AnimationFrame
    \/ SetActiveIndex
    \/ HashChange
    \/ SetDefaultTab

BuildSpec == Init /\ [][BuildNext]_vars

\* Re-entrancy: the host page's change listener activates a tab, on a widget
\* that is built (the listener may be there first) and operated.
ListenerNext ==
    \/ Connect
    \/ Disconnect
    \/ SlotChange
    \/ AnimationFrame
    \/ ClickTab
    \/ CallNext
    \/ AddActivatingListener
    \/ AddWriteBackListener

ListenerSpec == Init /\ [][ListenerNext]_vars

\* Tracking: the host page's listener records every notification of a widget
\* that is built and activated through each route.
TrackingNext ==
    \/ AddTrackingListener
    \/ Connect
    \/ Disconnect
    \/ SlotChange
    \/ AnimationFrame
    \/ SetActiveIndex
    \/ CallNext
    \/ ClickTab
    \/ HashChange

TrackingSpec == Init /\ [][TrackingNext]_vars

\* Progress: the browser delivers every pending slotchange event and runs
\* every requested animation-frame callback, on a widget that is connected,
\* disconnected, given new content and clicked.  The callback is enabled
\* exactly when a frame is outstanding (it always lowers frames), so its weak
\* fairness WF_vars(AnimationFrame) is written with that enabling condition:
\* infinitely often no frame is outstanding, or infinitely often one runs.
LiveNext ==
    \/ Connect
    \/ Disconnect
    \/ ContentChange
    \/ SlotChange
    \/ AnimationFrame
    \/ ClickTab

LiveSpec ==
    /\ Init
    /\ [][LiveNext]_vars
    /\ WF_vars(SlotChange)
    /\ ([]<>(frames = 0) \/ []<><<AnimationFrame>>_vars)

\* The defaultTab property and the scheduling of the Build: scripts assign
\* the property and change the content, before and after the Build, on a
\* widget that is connected, operated and disconnected.
PropertyNext ==
    \/ Connect
    \/ Disconnect
    \/ ContentChange
    \/ SlotChange
    \/ AnimationFrame
    \/ CallNext
    \/ HashChange
    \/ AssignDefaultTab

PropertySpec == Init /\ [][PropertyNext]_vars

\* Directives: the header-visibility and position directives change before
\* and after the Build.
DirectiveNext ==
    \/ Connect
    \/ Disconnect
    \/ ContentChange
    \/ SlotChange
    \/ AnimationFrame
    \/ ClickTab
    \/ SetShowHeaders
    \/ SetTablistAfter
    \/ AddChangeListener

DirectiveSpec == Init /\ [][DirectiveNext]_vars

\* Parsing: the Build runs over every short node sequence.
ParseNext ==
    \/ Connect
    \/ Disconnect
    \/ SlotChange
    \/ AnimationFrame

ParseSpec == ParseInit /\ [][ParseNext]_vars

\* =================================================================== claims
\* Vocabulary of the claims.
N == Len(tabs)
Indexes == 0..(N - 1)
\* x is (the fixed-point form of) an index of a tab.
IsIndex(x) == \E i \in Indexes : x = Num(i)
\* In state record r, pair i is the one active pair: tab k is selected and a
\* tab stop, and panel k is visible, exactly for k = i.
OnlyPairActive(r, i) ==
    \A k \in 0..(Len(r.tabs) - 1) :
        /\ r.tabs[k + 1].selected <=> (k = i)
        /\ (r.tabs[k + 1].tabindex = 0) <=> (k = i)
        /\ (~r.tabpanels[k + 1].hidden) <=> (k = i)
\* The change notification for pair i of the current tabs.
ChangeOf(i) ==
    [tabId |-> tabs[i + 1].id, tabpanelId |-> tabpanels[i + 1].id, tabIndex |-> Num(i)]

\* ----------------------------------------------------------------------- C1
\* C1: in every reachable state with the widget initialized over n >= 1 tabs
\* the active index is one of 0..n-1 and exactly the pair at the active index
\* is active (selected, tab stop, panel visible); before initialization there
\* are no tabs.
C1_ExactlyOnePairActive ==
    /\ (initialized /\ N >= 1) =>
          /\ IsIndex(activeIndex)
          /\ \A i \in Indexes :
                /\ (tabs[i + 1].selected /\ tabs[i + 1].tabindex = 0) <=> (Num(i) = activeIndex)
                /\ (~tabpanels[i + 1].hidden) <=> (Num(i) = activeIndex)
    /\ ~initialized => (N = 0 /\ Len(tabpanels) = 0)

\* ----------------------------------------------------------------------- C2
\* The number of elements of the section tag (the tag of the first heading
\* element) among nodes: the N of the claim, counted without the parser.
SectionHeadingCount(nodes) ==
    LET headings == {k \in 1..Len(nodes) :
                        nodes[k].type = "element" /\ IsHeadingTag(TagName(nodes[k]))}
    IN IF headings = {} THEN 0
       ELSE LET firstHeading == CHOOSE k \in headings : \A j \in headings : k <= j
            IN Cardinality({k \in headings : TagName(nodes[k]) = TagName(nodes[firstHeading])})

\* C2: in every reachable state there are as many tabs as panels and as
\* custom-title flags, and right after a Build over content with N section
\* headings (empty bodies included) all three number N, 0 when the content
\* has no heading.
C2_CountsAgree ==
    /\ Len(tabs) = Len(tabpanels)
    /\ Len(tabpanels) = Len(hasCustomTitle)
    /\ op = "build" => Len(tabs) = SectionHeadingCount(lightDom)

\* A Build has produced MaxSections pairs from content in which a section has
\* an empty body.
C2_Witness ==
    /\ op = "build"
    /\ Len(tabs) = MaxSections
    /\ \E k \in 1..Len(tabpanels) : tabpanels[k].content = <<>>

\* ----------------------------------------------------------------------- C3
\* C3: on an initialized widget with n tabs, assigning activeIndex a value
\* that is not an index in 0..n-1 changes nothing, fires no change
\* notification and raises no error.
C3_InvalidIndexIgnored ==
    (initialized /\ N >= 1) =>
        \A x \in InputNumbers : ~IsIndex(x) => setActiveIndex(State, x) = State

\* ----------------------------------------------------------------------- C4
\* Record r is the outcome of one Activate(i) on the current state: pair i is
\* the one active pair and exactly one change notification, that of pair i,
\* was dispatched.
ActivatedExactly(r, i) ==
    /\ r.activeIndex = Num(i)
    /\ OnlyPairActive(r, i)
    /\ r.events = <<ChangeOf(i)>>

\* The index the hash handler resolves the fragment h to: the first panel
\* whose heading carries h as its identifier, -1 if none.
FirstHeading(h) ==
    IF \E k \in Indexes : tabpanels[k + 1].heading.id = h
    THEN CHOOSE k \in Indexes :
            /\ tabpanels[k + 1].heading.id = h
            /\ \A j \in 0..(k - 1) : tabpanels[j + 1].heading.id /= h
    ELSE -1

\* C4: on an initialized widget, activating an index i of 0..n-1 other than
\* the active one - by activeIndex assignment, click, focus or Home/End in
\* auto-activate configuration, Enter/Space in manual configuration, or hash
\* navigation - leaves pair i as the one active pair and fires exactly one
\* change notification, carrying the ids of tab i and panel i and index i.
C4_ActivateSelectsAndNotifiesOnce ==
    initialized =>
        \A i \in Indexes :
            Num(i) /= activeIndex =>
                /\ ActivatedExactly(setActiveIndex(State, Num(i)), i)
                /\ ActivatedExactly(onTabClick(State, i), i)
                /\ autoActivate => ActivatedExactly(onTabFocus(State, i), i)
                /\ (autoActivate /\ i = 0) =>
                       ActivatedExactly(handleKeydown(State, "Home", i), i)
                /\ (autoActivate /\ i = N - 1) =>
                       ActivatedExactly(handleKeydown(State, "End", i), i)
                /\ (~autoActivate /\ focusedIndex = Num(i)) =>
                       /\ ActivatedExactly(handleKeydown(State, "Enter", i), i)
                       /\ ActivatedExactly(handleKeydown(State, " ", i), i)
                /\ \A h \in Hashes \ {""} :
                       FirstHeading(h) = i =>
                           ActivatedExactly(handleHashChange([State EXCEPT !.hash = h]), i)

\* A click has just moved the active pair to the last of MaxSections tabs.
C4_Witness ==
    /\ op = "click"
    /\ initialized
    /\ N = MaxSections
    /\ Len(events) = 1
    /\ events[1].tabIndex = Num(N - 1)
    /\ activeIndex = Num(N - 1)

\* ----------------------------------------------------------------------- C5
\* C5: on an initialized widget, Activate of the active index changes nothing
\* and fires nothing, so a second Activate(i) adds nothing to the first.
C5_ActivateIdempotent ==
    initialized =>
        /\ activateTab(State, activeIndex) = State
        /\ setActiveIndex(State, activeIndex) = State
        /\ \A i \in Indexes :
              LET once == activateTab(State, Num(i))
              IN /\ activateTab(once, Num(i)) = once
                 /\ Len(once.events) <= 1

\* A click on the active tab has just been handled: it fired nothing.
C5_Witness ==
    /\ op = "click"
    /\ initialized
    /\ N >= 2
    /\ events = <<>>
    /\ error = "none"
    /\ activeIndex = Num(1)

\* ----------------------------------------------------------------------- C6
\* Record r has pair i active and the focus index on it.
NavigatedTo(r, i) ==
    /\ r.activeIndex = Num(i)
    /\ r.focusedIndex = Num(i)
    /\ OnlyPairActive(r, i)

\* C6: on an initialized widget with n >= 1 tabs and active index a in
\* 0..n-1, next() activates (a+1) mod n, previous() (a-1+n) mod n, first() 0
\* and last() n-1, wherever the focus index is, and the focus index ends on
\* the new active index.
C6_CyclicNavigation ==
    (initialized /\ N >= 1) =>
        \A a \in Indexes :
            activeIndex = Num(a) =>
                /\ NavigatedTo(next(State), (a + 1) % N)
                /\ NavigatedTo(previous(State), (a - 1 + N) % N)
                /\ NavigatedTo(first(State), 0)
                /\ NavigatedTo(last(State), N - 1)

\* next() has just wrapped from the last of MaxSections tabs to the first.
C6_Witness ==
    /\ op = "next"
    /\ initialized
    /\ N = MaxSections
    /\ Len(events) = 1
    /\ activeIndex = Num(0)
    /\ focusedIndex = Num(0)

\* ----------------------------------------------------------------------- C7
\* Number(str) is a non-negative integer.
IsNonNegativeInteger(str) ==
    LET v == ToNumber(str)
    IN ~v.nan /\ IsInteger(v.value) /\ v.value >= 0

\* The index the claim assigns to directive value d over the panels of r.
Resolution(r, d) ==
    LET n == Len(r.tabpanels)
        matching == {k \in 0..(n - 1) : r.tabpanels[k + 1].heading.id = d}
    IN IF d = Null \/ d = "" THEN 0
       ELSE IF IsNonNegativeInteger(d) /\ ToNumber(d).value < Num(n)
            THEN ToNumber(d).value \div Scale
            ELSE IF matching /= {}
                 THEN CHOOSE k \in matching : \A j \in matching : k <= j
                 ELSE 0

\* C7: a Build over n >= 1 sections leaves the pair active that default-tab
\* resolution names: 0 for an absent or empty directive, k for a directive
\* whose number is an integer k in 0..n-1 (whatever the heading identifiers),
\* else the first section whose heading identifier equals the directive, else
\* 0.
C7_DefaultTabResolution ==
    pendingInitializationFrame =>
        \A token \in GeneratedIds :
            LET r == initializeTabs(State, token)
            IN Len(r.tabs) >= 1 =>
                  /\ r.initialized
                  /\ r.activeIndex = Num(Resolution(r, defaultTab))
                  /\ OnlyPairActive(r, Resolution(r, defaultTab))

\* A Build has just resolved the directive "2" over MaxSections sections to
\* index 2 although an earlier heading carries the identifier "2".
C7_Witness ==
    /\ op = "build"
    /\ defaultTab = "2"
    /\ hash = ""
    /\ N = MaxSections
    /\ activeIndex = Num(2)
    /\ tabpanels[2].heading.id = "2"

\* ----------------------------------------------------------------------- C8
\* C8: on an initialized widget a click on tab i makes i the active index,
\* in manual and in auto-activate configuration.
C8_ClickActivates ==
    initialized =>
        \A i \in Indexes :
            LET r == onTabClick(State, i)
            IN /\ r.activeIndex = Num(i)
               /\ OnlyPairActive(r, i)
               /\ r.error = "none"

\* In auto-activate configuration a click has just activated another tab.
C8_Witness ==
    /\ op = "click"
    /\ autoActivate
    /\ initialized
    /\ Len(events) = 1
    /\ activeIndex = Num(1)

\* ----------------------------------------------------------------------- C9
NavigationKeys == {"ArrowLeft", "ArrowUp", "ArrowRight", "ArrowDown", "Home", "End"}

\* C9: in manual configuration an arrow, Home or End key press on a tab
\* changes the focus index and the focused tab and nothing else: the active
\* index, each tab's selection and tab stop and each panel's visibility stay,
\* and no change notification is fired.
C9_ManualKeysOnlyMoveFocus ==
    (initialized /\ ~autoActivate /\ domFocus.where = "tab") =>
        \A key \in NavigationKeys :
            LET r == handleKeydown(State, key, domFocus.index)
            IN /\ r.events = <<>>
               /\ r.activeIndex = activeIndex
               /\ r.tabs = tabs
               /\ r.tabpanels = tabpanels
               /\ [r EXCEPT !.focusedIndex = focusedIndex, !.domFocus = domFocus,
                            !.error = "none"] = State

\* In manual configuration a key press has just moved the focus off the
\* active tab without activating.
C9_Witness ==
    /\ op = "keydown"
    /\ initialized
    /\ ~autoActivate
    /\ events = <<>>
    /\ error = "none"
    /\ IsIndex(focusedIndex)
    /\ focusedIndex /= activeIndex
    /\ domFocus = OnTab(focusedIndex \div Scale)

\* ---------------------------------------------------------------------- C10
\* C10: in manual configuration, in every reachable state, a key press on
\* the tab at index i (the tab that has the focus) moves the focus to
\* (i+1) mod n for ArrowRight/ArrowDown, to (i-1+n) mod n for
\* ArrowLeft/ArrowUp, to 0 for Home and to n-1 for End.
C10_KeysMoveFromPressedTab ==
    (initialized /\ ~autoActivate /\ domFocus.where = "tab") =>
        LET i == domFocus.index
            after(key) == handleKeydown(State, key, i).domFocus
        IN /\ after("ArrowRight") = OnTab((i + 1) % N)
           /\ after("ArrowDown") = OnTab((i + 1) % N)
           /\ after("ArrowLeft") = OnTab((i - 1 + N) % N)
           /\ after("ArrowUp") = OnTab((i - 1 + N) % N)
           /\ after("Home") = OnTab(0)
           /\ after("End") = OnTab(N - 1)

\* ---------------------------------------------------------------------- C11
\* C11: an Enter or Space key press on a tab of an initialized widget, in
\* manual configuration, activates the focus index (one change notification
\* if it was not the active index, none otherwise) and then moves the focus
\* to the first focusable descendant of the panel active after that, if it
\* has one; in auto-activate configuration it activates nothing and only
\* moves the focus into the active panel.
C11_EnterActivatesFocused ==
    (initialized /\ N >= 1 /\ domFocus.where = "tab") =>
        \A key \in {"Enter", " "} :
            LET r == handleKeydown(State, key, domFocus.index)
                target == IF autoActivate THEN activeIndex ELSE focusedIndex
            IN /\ r.error = "none"
               /\ IsIndex(target)
               /\ r.activeIndex = target
               /\ OnlyPairActive(r, target \div Scale)
               /\ r.events = IF target = activeIndex THEN <<>>
                             ELSE <<ChangeOf(target \div Scale)>>
               /\ r.domFocus = IF hasFocusable(At(tabpanels, target))
                               THEN InPanel(target \div Scale)
                               ELSE domFocus

\* ---------------------------------------------------------------------- C12
\* C12: on an initialized widget in auto-activate configuration the focus
\* index equals the active index; a tab that receives the focus becomes the
\* active one; an arrow, Home or End key press that completes or moves the
\* focus leaves the focused tab active (Home the first tab, End the last);
\* and a change of the auto-activate directive, in either direction, sets the
\* focus index to the active index.
C12_AutoActivateFocusFollows ==
    initialized =>
        /\ autoActivate => focusedIndex = activeIndex
        /\ autoActivate =>
              \A i \in Indexes :
                  LET r == onTabFocus([State EXCEPT !.domFocus = OnTab(i)], i)
                  IN /\ r.activeIndex = Num(i)
                     /\ r.focusedIndex = Num(i)
                     /\ OnlyPairActive(r, i)
        /\ (autoActivate /\ domFocus.where = "tab") =>
              \A key \in NavigationKeys :
                  LET r == handleKeydown(State, key, domFocus.index)
                  IN /\ r.focusedIndex = r.activeIndex
                     /\ (r.error = "none" \/ r.domFocus /= domFocus) =>
                           /\ r.domFocus.where = "tab"
                           /\ r.activeIndex = Num(r.domFocus.index)
                           /\ OnlyPairActive(r, r.domFocus.index)
                     /\ key = "Home" => r.domFocus = OnTab(0)
                     /\ key = "End" => r.domFocus = OnTab(N - 1)
        /\ LET s == [State EXCEPT !.autoActivate = ~autoActivate]
               r == attributeChangedCallback(s, "auto-activate", Present(autoActivate),
                                             Present(~autoActivate))
           IN /\ r.focusedIndex = activeIndex
              /\ r.activeIndex = activeIndex

\* The directive has just been added while the keyboard focus was on a tab
\* other than the active one: the focus index is back on the active index.
C12_Witness ==
    /\ op = "auto-activate"
    /\ initialized
    /\ autoActivate
    /\ focusedIndex = activeIndex
    /\ domFocus.where = "tab"
    /\ Num(domFocus.index) /= activeIndex

\* ---------------------------------------------------------------------- C13
\* URL fragments tried against the headings: the empty one, identifiers the
\* host content uses, and one it never uses.
Fragments == {"", "2", "a", "top", "nowhere"}

\* The panels whose cloned heading carries h as its own or its original id.
HeadingMatches(h) ==
    {k \in Indexes : \/ tabpanels[k + 1].heading.id = h
                     \/ tabpanels[k + 1].heading.originalId = h}

\* C13: on an initialized widget, a hash change to a non-empty fragment that
\* is the identifier of some section heading activates the smallest-index
\* panel with such a heading (one change notification if it was not active,
\* none otherwise) and requests one scroll of the tab strip into view.
C13_HashActivatesFirstMatch ==
    initialized =>
        \A h \in Fragments \ {""} :
            HeadingMatches(h) /= {} =>
                LET i == CHOOSE k \in HeadingMatches(h) : \A j \in HeadingMatches(h) : k <= j
                    r == handleHashChange([State EXCEPT !.hash = h])
                IN /\ r.activeIndex = Num(i)
                   /\ OnlyPairActive(r, i)
                   /\ r.events = IF Num(i) = activeIndex THEN <<>> ELSE <<ChangeOf(i)>>
                   /\ r.scrolls = 1
                   /\ r.error = "none"

\* A hash change to "2" has just activated panel 1, the first of two panels
\* whose heading has that identifier, and requested the scroll.
C13_Witness ==
    /\ op = "hashchange"
    /\ initialized
    /\ hash = "2"
    /\ HeadingMatches("2") = {1, 2}
    /\ activeIndex = Num(1)
    /\ Len(events) = 1
    /\ events[1].tabIndex = Num(1)
    /\ scrolls = 1

\* ---------------------------------------------------------------------- C14
\* C14: a hash change changes nothing (indexes, selection, visibility), fires
\* no change notification, requests no scroll and raises no error when the
\* widget is not initialized, when the fragment is empty, or when no section
\* heading has the fragment as identifier.
C14_HashNoOp ==
    \A h \in Fragments :
        (~initialized \/ h = "" \/ HeadingMatches(h) = {}) =>
            handleHashChange([State EXCEPT !.hash = h]) = [State EXCEPT !.hash = h]

\* A hash change to a fragment no heading carries has just been handled on
\* an initialized widget: nothing fired, nothing scrolled.
C14_Witness ==
    /\ op = "hashchange"
    /\ initialized
    /\ N >= 2
    /\ hash = "2"
    /\ HeadingMatches("2") = {}
    /\ events = <<>>
    /\ scrolls = 0
    /\ error = "none"

\* ---------------------------------------------------------------------- C15
\* Record r shows the host content untransformed.
Untransformed(r) ==
    /\ Len(r.tabs) = 0
    /\ Len(r.tabpanels) = 0
    /\ ~r.tablist
    /\ r.container = <<>>
    /\ r.slotDisplay = ""
    /\ ~r.initialized
    /\ ~r.hashListenerAttached

\* C15: a Build over content without a heading element, on first mount or
\* after the host removed the headings of tabbed content, transforms nothing:
\* no tabs, no panels, no tablist, the content itself displayed and
\* unchanged, the widget not initialized, the hashchange listener detached.
C15_NoHeadingNoTransform ==
    /\ (pendingInitializationFrame /\ SectionHeadingCount(lightDom) = 0) =>
          \A token \in GeneratedIds :
              LET r == initializationFrame(State, token)
              IN /\ Untransformed(r)
                 /\ r.lightDom = lightDom
                 /\ r.events = <<>>
                 /\ r.error = "none"
    /\ (op = "build" /\ SectionHeadingCount(lightDom) = 0) => Untransformed(State)

\* A rebuild has just run over heading-free content of a widget that an
\* earlier Build had tabbed (it carries a generated base identifier).
C15_Witness ==
    /\ op = "build"
    /\ lightDom /= <<>>
    /\ SectionHeadingCount(lightDom) = 0
    /\ id \in GeneratedIds
    /\ Untransformed(State)

\* ---------------------------------------------------------------------- C16
\* C16: in every reachable initialized state the cloned heading of panel i
\* is visually hidden exactly when the show-headers directive is absent and
\* section i has no custom short label; the heading of a pair with a custom
\* short label is never hidden, and toggling the directive leaves that pair
\* as it is.
C16_HeaderVisibility ==
    initialized =>
        /\ \A i \in Indexes :
              tabpanels[i + 1].heading.visuallyHidden
                  <=> (~showHeaders /\ ~hasCustomTitle[i + 1])
        /\ \A i \in Indexes :
              hasCustomTitle[i + 1] =>
                  LET s == [State EXCEPT !.showHeaders = ~showHeaders]
                      r == attributeChangedCallback(s, "show-headers", Present(showHeaders),
                                                    Present(~showHeaders))
                  IN /\ ~tabpanels[i + 1].heading.visuallyHidden
                     /\ r.tabpanels[i + 1] = tabpanels[i + 1]
                     /\ r.tabs[i + 1] = tabs[i + 1]

\* ---------------------------------------------------------------------- C17
\* C17: in every reachable initialized state the tab strip is the last child
\* of the container, after all panels, when tablist-after is present, and
\* the first child, before all panels, when it is absent.
C17_TablistPosition ==
    initialized =>
        /\ Len(container) = N + 1
        /\ \A k \in 1..Len(container) :
              container[k] = "tablist"
                  <=> (k = IF tablistAfter THEN Len(container) ELSE 1)

\* ---------------------------------------------------------------------- C18
\* The state with boolean attribute name toggled, as attributeChangedCallback
\* finds it, and the outcome of the callback.
Toggled(name) ==
    CASE name = "show-headers" -> [State EXCEPT !.showHeaders = ~showHeaders]
      [] name = "tablist-after" -> [State EXCEPT !.tablistAfter = ~tablistAfter]
      [] name = "auto-activate" -> [State EXCEPT !.autoActivate = ~autoActivate]

WasPresent(name) ==
    CASE name = "show-headers" -> showHeaders
      [] name = "tablist-after" -> tablistAfter
      [] name = "auto-activate" -> autoActivate

\* C18: in every state in which no Build has completed (the widget is not
\* initialized), an activeIndex assignment, next(), previous(), first(),
\* last(), a hash change and a change of the show-headers, tablist-after,
\* auto-activate or default-tab directive leave the controller state as it
\* is, fire no change notification and raise no error.
C18_NoOpBeforeBuild ==
    ~initialized =>
        /\ \A x \in InputNumbers : setActiveIndex(State, x) = State
        /\ next(State) = State
        /\ previous(State) = State
        /\ first(State) = State
        /\ last(State) = State
        /\ \A h \in Fragments :
              handleHashChange([State EXCEPT !.hash = h]) = [State EXCEPT !.hash = h]
        /\ \A name \in {"show-headers", "tablist-after", "auto-activate"} :
              attributeChangedCallback(Toggled(name), name, Present(WasPresent(name)),
                                       Present(~WasPresent(name))) = Toggled(name)
        /\ \A value \in DefaultTabValues :
              attributeChangedCallback([State EXCEPT !.defaultTab = value],
                                       "default-tab", defaultTab, value)
                  = [State EXCEPT !.defaultTab = value]

\* next() has just been called on a connected widget whose first Build over
\* content with headings is still pending: nothing happened.
C18_Witness ==
    /\ op = "next"
    /\ ~initialized
    /\ isConnected
    /\ pendingInitializationFrame
    /\ SectionHeadingCount(lightDom) >= 1
    /\ N = 0
    /\ activeIndex = 0
    /\ events = <<>>
    /\ error = "none"

\* ---------------------------------------------------------------------- C19
\* The tabs and panels of record r carry the identifiers derived from base,
\* refer to each other, and no two of the 2n identifiers are equal.
IdentifiersFrom(r, base) ==
    LET n == Len(r.tabs)
        tabIds == {r.tabs[k].id : k \in 1..n}
        panelIds == {r.tabpanels[k].id : k \in 1..n}
    IN /\ \A i \in 0..(n - 1) :
             /\ r.tabs[i + 1].id = base \o "-tab-" \o ToString(i)
             /\ r.tabpanels[i + 1].id = base \o "-panel-" \o ToString(i)
             /\ r.tabs[i + 1].controls = r.tabpanels[i + 1].id
             /\ r.tabpanels[i + 1].labelledby = r.tabs[i + 1].id
       /\ Cardinality(tabIds \cup panelIds) = 2 * n

\* C19: the 2n identifiers of a built widget are pairwise distinct and are
\* base-tab-i and base-panel-i for one base; tab i controls panel i and panel
\* i is labelled by tab i; the base is the host's id when it has one,
\* otherwise a token generated by the first Build, which every later Build
\* of the instance uses again.
C19_Identifiers ==
    /\ initialized => (id /= "" /\ IdentifiersFrom(State, id))
    /\ pendingInitializationFrame =>
          \A token \in GeneratedIds :
              LET r == initializeTabs(State, token)
              IN r.initialized =>
                    /\ r.id = IF id /= "" THEN id ELSE token
                    /\ IdentifiersFrom(r, r.id)

\* A Build has just run over MaxSections sections of a host that gave no id:
\* the identifiers derive from the generated token.
C19_Witness ==
    /\ op = "build"
    /\ initialized
    /\ N = MaxSections
    /\ id \in GeneratedIds
    /\ tabs[N].id = id \o "-tab-" \o ToString(N - 1)
    /\ tabpanels[N].labelledby = tabs[N].id

\* ---------------------------------------------------------------------- C20
\* Positions of the heading elements (h1..h6) of a node sequence.
HeadingPositions(nodes) ==
    {k \in 1..Len(nodes) : nodes[k].type = "element" /\ IsHeadingTag(TagName(nodes[k]))}

\* The tag of the first heading element, Null when there is none.
SectionTag(nodes) ==
    IF HeadingPositions(nodes) = {} THEN Null
    ELSE TagName(nodes[CHOOSE k \in HeadingPositions(nodes) :
                           \A j \in HeadingPositions(nodes) : k <= j])

\* Positions of the elements with the section tag.
SectionPositions(nodes) ==
    {k \in 1..Len(nodes) : nodes[k].type = "element" /\ TagName(nodes[k]) = SectionTag(nodes)}

\* How many section headings stand before position k.
SectionsBefore(nodes, k) ==
    Cardinality({j \in SectionPositions(nodes) : j < k})

\* C20: the first heading element of the node sequence fixes the section
\* tag; the parser returns one section per element of exactly that tag, in
\* document order; a heading of another level starts no section and is part
\* of the content of the section open where it stands.  The Build makes one
\* panel of each of these sections.
C20_SectionTag ==
    LET nodes == assignedNodes(lightDom)
        tag == findHeadingTag(nodes, 1)
        sections == parseContentIntoSections(nodes, tag)
    IN /\ tag = SectionTag(nodes)
       /\ Len(sections) = Cardinality(SectionPositions(nodes))
       /\ \A k \in SectionPositions(nodes) :
             sections[SectionsBefore(nodes, k) + 1].heading = nodes[k]
       /\ \A j \in 1..Len(sections) : TagName(sections[j].heading) = tag
       /\ \A k \in HeadingPositions(nodes) \ SectionPositions(nodes) :
             /\ SectionsBefore(nodes, k) >= 1
             /\ \E m \in 1..Len(sections[SectionsBefore(nodes, k)].content) :
                   sections[SectionsBefore(nodes, k)].content[m] = nodes[k]
       /\ op = "build" =>
             /\ Len(tabpanels) = Len(sections)
             /\ \A j \in 1..Len(sections) :
                   /\ tabpanels[j].heading.tag = sections[j].heading.tag
                   /\ tabpanels[j].heading.id = sections[j].heading.id
                   /\ tabpanels[j].content = sections[j].content

\* A Build has just run over h2, h3, h2: two panels, the h3 in the first.
C20_Witness ==
    /\ op = "build"
    /\ Len(lightDom) = 3
    /\ lightDom[1].tag = "h2" /\ lightDom[2].tag = "h3" /\ lightDom[3].tag = "h2"
    /\ Len(tabpanels) = 2
    /\ tabpanels[1].heading.tag = "h2"
    /\ tabpanels[1].content = <<lightDom[2]>>
    /\ tabpanels[2].heading.id = lightDom[3].id

\* ---------------------------------------------------------------------- C21
\* The node goes into a section's content: an element that is not a section
\* heading, or a text node with something other than white space.
IsContent(node, tag) ==
    \/ node.type = "element" /\ TagName(node) /= tag
    \/ node.type = "text" /\ node.text \notin {"", " ", "  "}

\* The form in which the node stands in the content: a text node as the
\* span that wraps its text, an element as itself.
AsContent(node) ==
    IF node.type = "text" THEN [type |-> "element", tag |-> "span", id |-> "",
                                shortName |-> "", text |-> node.text]
    ELSE node

\* The content nodes of nodes[from..to], in document order.
RECURSIVE ContentBetween(_, _, _, _)
ContentBetween(nodes, from, to, tag) ==
    IF from > to THEN <<>>
    ELSE (IF IsContent(nodes[from], tag) THEN <<AsContent(nodes[from])>> ELSE <<>>)
         \o ContentBetween(nodes, from + 1, to, tag)

\* The position of the k-th element with the given tag; Len(nodes) + 1 when
\* there are fewer than k.
HeadingAt(nodes, tag, k) ==
    LET at == {p \in 1..Len(nodes) :
                  /\ nodes[p].type = "element" /\ TagName(nodes[p]) = tag
                  /\ Cardinality({q \in 1..p : nodes[q].type = "element"
                                                 /\ TagName(nodes[q]) = tag}) = k}
    IN IF at = {} THEN Len(nodes) + 1 ELSE CHOOSE p \in at : TRUE

\* The parser's result for nodes is the claimed one.
ParsedAsClaimed(nodes) ==
    LET tag == findHeadingTag(nodes, 1)
        sections == parseContentIntoSections(nodes, tag)
        total == Cardinality({p \in 1..Len(nodes) :
                                 /\ p > HeadingAt(nodes, tag, 1)
                                 /\ IsContent(nodes[p], tag)})
        lengths[k \in 0..Len(sections)] ==
            IF k = 0 THEN 0 ELSE lengths[k - 1] + Len(sections[k].content)
    IN /\ \A k \in 1..Len(sections) :
             sections[k].content =
                 ContentBetween(nodes, HeadingAt(nodes, tag, k) + 1,
                                HeadingAt(nodes, tag, k + 1) - 1, tag)
       /\ lengths[Len(sections)] = total

\* C21: for every node sequence, with or without the comments a slot never
\* receives, the content of section k is the sequence, in document order, of
\* the non-section-heading elements and the non-blank text nodes (each text
\* node as the span made of it) between the k-th section heading and the
\* next one or the end; nodes before the first section heading and blank
\* text nodes are in no section, and the sections together hold each content
\* node once.  The panels a Build makes hold these contents.
C21_SectionContent ==
    /\ ParsedAsClaimed(lightDom)
    /\ ParsedAsClaimed(assignedNodes(lightDom))
    /\ op = "build" =>
          LET nodes == assignedNodes(lightDom)
              tag == findHeadingTag(nodes, 1)
          IN \A k \in 1..Len(tabpanels) :
                tabpanels[k].content =
                    ContentBetween(nodes, HeadingAt(nodes, tag, k) + 1,
                                   HeadingAt(nodes, tag, k + 1) - 1, tag)

\* A Build has just run over: a paragraph, a heading, blank text, text.
\* The one panel holds the span of the text only.
C21_Witness ==
    /\ op = "build"
    /\ Len(lightDom) = 4
    /\ lightDom[1].tag = "p"
    /\ lightDom[2].tag = "h2"
    /\ lightDom[3] = TextNode(" ")
    /\ lightDom[4] = TextNode("words")
    /\ Len(tabpanels) = 1
    /\ tabpanels[1].content = <<[type |-> "element", tag |-> "span", id |-> "",
                                 shortName |-> "", text |-> "words"]>>

\* ---------------------------------------------------------------------- C22
\* Record r has the pairs of the current state: same tabs and panels but for
\* which of them is selected and shown, and no Build scheduled by the step.
SamePairs(r) ==
    /\ Len(r.tabs) = N
    /\ Len(r.tabpanels) = N
    /\ \A k \in 1..N :
          /\ [r.tabs[k] EXCEPT !.selected = tabs[k].selected,
                               !.tabindex = tabs[k].tabindex,
                               !.part = tabs[k].part] = tabs[k]
          /\ [r.tabpanels[k] EXCEPT !.hidden = tabpanels[k].hidden] = tabpanels[k]
    /\ r.hasCustomTitle = hasCustomTitle
    /\ r.container = container
    /\ r.id = id
    /\ r.initialized
    /\ r.pendingInitializationFrame = pendingInitializationFrame
    /\ r.slotChangePending = slotChangePending

\* C22: on an initialized widget a change of the default-tab directive (set,
\* changed or removed) makes the index that default-tab resolution gives
\* over the existing pairs the active one, with one change notification if
\* it was not the active index and none otherwise, and rebuilds nothing.
C22_DefaultTabChange ==
    initialized =>
        \A value \in DefaultTabValues :
            value /= defaultTab =>
                LET r == attributeChangedCallback([State EXCEPT !.defaultTab = value],
                                                  "default-tab", defaultTab, value)
                    k == Resolution(State, value)
                IN /\ r.activeIndex = Num(k)
                   /\ OnlyPairActive(r, k)
                   /\ r.events = IF Num(k) = activeIndex THEN <<>> ELSE <<ChangeOf(k)>>
                   /\ r.error = "none"
                   /\ SamePairs(r)

\* The directive has just been set, through the property, to the identifier
\* of the second heading of a built widget: pair 1 is active and one
\* notification was fired.
C22_Witness ==
    /\ op = "defaultTab"
    /\ initialized
    /\ defaultTab = "a"
    /\ N = MaxSections
    /\ tabpanels[2].heading.id = "a"
    /\ activeIndex = Num(1)
    /\ Len(events) = 1
    /\ events[1].tabIndex = Num(1)

\* ---------------------------------------------------------------------- C23
\* The heading element that opens section k (from 1) of the host's content.
SectionHeading(k) ==
    lightDom[HeadingAt(lightDom, SectionTag(lightDom), k)]

\* C23: right after a Build, tab k shows the custom short label of the
\* heading of section k when the heading carries one and the heading's
\* markup otherwise, and has an accessible label, the heading's trimmed
\* text, exactly when the short label is used.
C23_TabLabels ==
    (op = "build" /\ initialized) =>
        \A k \in 1..N :
            LET h == SectionHeading(k)
            IN IF h.shortName /= ""
               THEN /\ tabs[k].label = h.shortName
                    /\ tabs[k].ariaLabel = "Full title"
               ELSE /\ tabs[k].label = h.text
                    /\ tabs[k].ariaLabel = Null

\* A built widget whose first heading has a short label and whose second
\* has marked-up content and none.
C23_Witness ==
    /\ op = "build"
    /\ initialized
    /\ N >= 2
    /\ tabs[1].label = "Short"
    /\ tabs[1].ariaLabel = "Full title"
    /\ tabs[2].label = " <em>Full</em> title "
    /\ tabs[2].ariaLabel = Null

\* ---------------------------------------------------------------------- C24
\* The assigned values that stand for "no default tab".
RemovingValues == {JsNull, JsUndefined, JsString(""), JsString("  ")}

\* The trimmed string form of the other assigned values.
TrimmedForm(value) ==
    CASE value = JsNumber(2) -> "2"
      [] value = JsString("2") -> "2"
      [] value = JsString(" 2 ") -> "2"
      [] value = JsString("a") -> "a"
      [] value = JsString(" a ") -> "a"

\* C24: assigning null, undefined, an empty or a whitespace-only string to
\* defaultTab removes the directive and a read then gives null; assigning
\* any other value stores its trimmed string form and a read gives exactly
\* that string; assigning the value just read back changes nothing.
C24_DefaultTabRoundTrip ==
    \A value \in AssignedValues :
        LET r == setDefaultTab(State, value)
            read == getDefaultTab(r)
            again == setDefaultTab(r, read)
        IN /\ value \in RemovingValues => r.defaultTab = Null /\ read = JsNull
           /\ value \notin RemovingValues =>
                 /\ r.defaultTab = TrimmedForm(value)
                 /\ read = JsString(TrimmedForm(value))
           /\ again.defaultTab = r.defaultTab
           /\ again.activeIndex = r.activeIndex
           /\ again.tabs = r.tabs
           /\ again.tabpanels = r.tabpanels

\* The property has just been assigned on a built widget, the directive now
\* holds the trimmed form "2" and the pair it names is active.
C24_Witness ==
    /\ op = "defaultTab"
    /\ initialized
    /\ defaultTab = "2"
    /\ getDefaultTab(State) = JsString("2")
    /\ activeIndex = Num(2)

\* ---------------------------------------------------------------------- C25
\* The current state with the controller as it is before its first Build:
\* no pairs, active and focus index 0.
WithNewController ==
    [State EXCEPT !.tablist = FALSE, !.tabs = <<>>, !.tabpanels = <<>>,
                  !.hasCustomTitle = <<>>, !.initialized = FALSE,
                  !.activeIndex = 0, !.focusedIndex = 0]

\* No section heading of the content is named by the fragment.
NoMatchingFragment(r) ==
    \/ r.hash = ""
    \/ \A k \in 1..Len(r.tabpanels) : /\ r.tabpanels[k].heading.id /= r.hash
                                      /\ r.tabpanels[k].heading.originalId /= r.hash

RECURSIVE Burst(_, _)
\* k schedulings in a row, by content changes on a connected widget.
Burst(s, k) == IF k = 0 THEN s ELSE Burst(onSlotChange(s), k - 1)

\* C26: at most one deferred Build is outstanding, and it is the one the
\* controller holds as pending; a burst of k >= 1 schedulings on a connected
\* widget leaves exactly one outstanding, and none after that one has run.
C26_OneDeferredBuild ==
    /\ frames <= 1
    /\ pendingInitializationFrame <=> frames = 1
    /\ isConnected =>
          \A k \in 1..MaxBurst :
              LET r == Burst(State, k)
              IN /\ r.frames = 1
                 /\ r.pendingInitializationFrame
                 /\ \A token \in GeneratedIds :
                        LET b == initializationFrame([r EXCEPT !.frames = @ - 1], token)
                        IN b.frames = 0 /\ ~b.pendingInitializationFrame

\* The slot has announced its content while the Build scheduled on connect
\* had not run yet (the shadow tree is as #render left it): one Build is
\* outstanding after the second scheduling.
C26_Witness ==
    /\ op = "slotchange"
    /\ isConnected
    /\ ~initialized
    /\ container = <<>>
    /\ slotDisplay = "none"
    /\ frames = 1
    /\ pendingInitializationFrame

\* ---------------------------------------------------------------------- C27
\* C27: a disconnect cancels the pending Build and detaches the hashchange
\* listener, also when a Build is scheduled and has not run; while the
\* element is disconnected no Build is outstanding, the listener is not
\* attached, and a hash change leaves the controller as it is.
C27_Teardown ==
    /\ isConnected =>
          LET r == disconnectedCallback(State)
          IN /\ ~r.isConnected
             /\ r.frames = 0
             /\ ~r.pendingInitializationFrame
             /\ ~r.hashListenerAttached
    /\ ~isConnected =>
          /\ frames = 0
          /\ ~pendingInitializationFrame
          /\ ~hashListenerAttached
          /\ \A h \in Fragments :
                 hashChangeEvent([State EXCEPT !.hash = h]) = [State EXCEPT !.hash = h]

\* The element has been disconnected while the Build scheduled on connect
\* had not run (the shadow tree is as #render left it), in a document whose
\* fragment names a heading.
C27_Witness ==
    /\ op = "disconnect"
    /\ ~isConnected
    /\ container = <<>>
    /\ slotDisplay = "none"
    /\ SectionHeadingCount(lightDom) > 0
    /\ frames = 0
    /\ ~hashListenerAttached

\* ---------------------------------------------------------------------- C28
\* The current state of a page without a change listener.
Unlistened == [State EXCEPT !.changeListener = "none"]

\* Outcome r has the controller state and the ordered notifications of
\* outcome q.
SameOutcome(r, q) ==
    /\ r.activeIndex = q.activeIndex
    /\ r.focusedIndex = q.focusedIndex
    /\ r.tabs = q.tabs
    /\ r.tabpanels = q.tabpanels
    /\ r.events = q.events
    /\ r.reported = q.reported

\* Every notification of outcome r found its own index active, with that
\* pair the only one selected and visible.
ObservedAtomically(r) ==
    \A k \in 1..Len(r.events) :
        /\ r.observed[k].activeIndex = r.events[k].tabIndex
        /\ IsInteger(r.events[k].tabIndex)
        /\ r.observed[k].selected = {(r.events[k].tabIndex \div Scale) + 1}
        /\ r.observed[k].visible = {(r.events[k].tabIndex \div Scale) + 1}

\* The outcome of operation result q of the unlistened page followed, when q
\* fired a notification, by the activation the listener makes.
ThenListenerActivation(q) ==
    IF q.events = <<>> THEN q
    ELSE setActiveIndex(q, ListenerTarget(changeListener))

\* C28: with a listener that assigns activeIndex = j in the notification,
\* every activation (by the activeIndex property on a built widget, and by
\* the Build) notifies only after the state is updated, and ends in the
\* state and with the notifications of the same activation without the
\* listener followed by the activation of j.
C28_ReentrantActivate ==
    changeListener \in ActivatingListeners =>
        /\ initialized =>
              \A i \in Indexes :
                  LET r == setActiveIndex(State, Num(i))
                  IN /\ ObservedAtomically(r)
                     /\ SameOutcome(r, ThenListenerActivation(
                                           setActiveIndex(Unlistened, Num(i))))
        /\ frames > 0 =>
              \A token \in GeneratedIds :
                  LET r == initializationFrame(State, token)
                  IN /\ ObservedAtomically(r)
                     /\ SameOutcome(r, ThenListenerActivation(
                                           initializationFrame(Unlistened, token)))

\* ---------------------------------------------------------------------- C29
\* Operation outcome r raised no error and left none to the window.
Silent(r) == r.error = "none" /\ r.reported = "none"

\* C29: in every reachable state, built or not, connected or not, no public
\* operation and no event handler raises an error: the activeIndex
\* assignment, next, previous, first, last, the click, focus and key
\* handlers, the hashchange handler, a directive change, connect, disconnect.
C29_NoOperationThrows ==
    /\ \A x \in InputNumbers : Silent(setActiveIndex(State, x))
    /\ Silent(next(State))
    /\ Silent(previous(State))
    /\ Silent(first(State))
    /\ Silent(last(State))
    /\ \A i \in 0..(Len(tabs) - 1) :
          /\ Silent(onTabClick(State, i))
          /\ Silent(onTabFocus([State EXCEPT !.domFocus = OnTab(i)], i))
          /\ \A key \in Keys :
                Silent(handleKeydown([State EXCEPT !.domFocus = OnTab(i)], key, i))
    /\ \A h \in Fragments : Silent(hashChangeEvent([State EXCEPT !.hash = h]))
    /\ Silent(attributeChangedCallback([State EXCEPT !.autoActivate = ~autoActivate],
                                       "auto-activate", Present(autoActivate),
                                       Present(~autoActivate)))
    /\ \A value \in AssignedValues : Silent(setDefaultTab(State, value))
    /\ Silent(IF isConnected THEN disconnectedCallback(State)
                             ELSE connectedCallback(State))
    /\ frames > 0 =>
          \A token \in GeneratedIds : Silent(initializationFrame(State, token))

\* ---------------------------------------------------------------------- C30
\* C30: in every reachable initialized state of a widget whose notifications
\* a listener has tracked since before the connect, the tabIndex of the most
\* recent change notification is the current active index.
C30_LastNotificationIsActive ==
    (initialized /\ changeListener = TrackingListener) => lastChange = activeIndex

\* ---------------------------------------------------------------------- C31
\* Operation outcome r keeps the focus index on the active index.
FocusOnActive(r) == r.focusedIndex = r.activeIndex

\* C31: with n >= 1 tabs the focus index is one of 0..n-1; right after an
\* operation that fired a change notification, and right after a Build, it
\* is the active index; it differs from the active index only in manual
\* configuration, and no operation other than an arrow, Home or End key press
\* or a tab receiving focus makes the two differ.
C31_FocusIndex ==
    N >= 1 =>
        /\ IsIndex(focusedIndex)
        /\ (events /= <<>> \/ op = "build") => focusedIndex = activeIndex
        /\ focusedIndex /= activeIndex => ~autoActivate
        /\ focusedIndex = activeIndex =>
              /\ \A x \in InputNumbers : FocusOnActive(setActiveIndex(State, x))
              /\ FocusOnActive(next(State))
              /\ FocusOnActive(previous(State))
              /\ FocusOnActive(first(State))
              /\ FocusOnActive(last(State))
              /\ \A h \in Fragments :
                     FocusOnActive(hashChangeEvent([State EXCEPT !.hash = h]))
              /\ \A i \in Indexes :
                     /\ FocusOnActive(onTabClick(State, i))
                     /\ \A key \in {"Enter", " ", "Tab"} :
                            FocusOnActive(handleKeydown(
                                [State EXCEPT !.domFocus = OnTab(i)], key, i))

\* ---------------------------------------------------------------------- C32
\* Outcome r has the tabs and panels of the current state, with their
\* identifiers, selection and visibility, the same active and focus index,
\* and no change notification.
PairsUntouched(r) ==
    /\ r.tabs = tabs
    /\ Len(r.tabpanels) = Len(tabpanels)
    /\ \A k \in 1..Len(tabpanels) :
          [r.tabpanels[k] EXCEPT !.heading.visuallyHidden =
                                     tabpanels[k].heading.visuallyHidden] = tabpanels[k]
    /\ r.activeIndex = activeIndex
    /\ r.focusedIndex = focusedIndex
    /\ r.initialized = initialized
    /\ r.events = <<>>
    /\ r.error = "none"
    /\ r.frames = frames

\* C32: on an initialized widget a change of the header-visibility directive
\* or of the position directive leaves the tabs and panels, their
\* identifiers, the active index, the focus index, every tab's selected
\* state and every panel's visibility as they are and fires no notification.
C32_DirectiveFrame ==
    initialized =>
        /\ PairsUntouched(attributeChangedCallback(
               [State EXCEPT !.showHeaders = ~showHeaders],
               "show-headers", Present(showHeaders), Present(~showHeaders)))
        /\ PairsUntouched(attributeChangedCallback(
               [State EXCEPT !.tablistAfter = ~tablistAfter],
               "tablist-after", Present(tablistAfter), Present(~tablistAfter)))

\* The position directive has just been set on a built widget whose second
\* pair is active: the tab strip stands after the panels and pair 1 is still
\* the active one.
C32_Witness ==
    /\ op = "tablist-after"
    /\ initialized
    /\ tablistAfter
    /\ N >= 2
    /\ container[Len(container)] = "tablist"
    /\ activeIndex = Num(1)
    /\ tabs[2].selected
    /\ ~tabpanels[2].hidden
    /\ events = <<>>

\* ---------------------------------------------------------------------- C33
\* The fragment names a section heading of the built widget.
FragmentMatches == hash /= "" /\ HeadingMatches(hash) /= {}

\* The smallest index of a section whose heading the fragment names.
FragmentIndex == CHOOSE k \in HeadingMatches(hash) : \A j \in HeadingMatches(hash) : k <= j

\* C33: at the end of every Build step that yields at least one tab the
\* active pair is the one whose heading the URL fragment names, when it
\* names one, whatever the default-tab directive resolves to, and the pair of
\* default-tab resolution otherwise.
C33_HashAfterDefault ==
    (op = "build" /\ N >= 1) =>
        LET k == IF FragmentMatches THEN FragmentIndex
                                    ELSE Resolution(State, defaultTab)
        IN /\ initialized
           /\ activeIndex = Num(k)
           /\ OnlyPairActive(State, k)

\* A Build has just run with a default-tab directive that resolves to pair 2
\* and a fragment that names the heading of pair 1: pair 1 is active.
C33_Witness ==
    /\ op = "build"
    /\ N = MaxSections
    /\ defaultTab = "2"
    /\ Resolution(State, defaultTab) = 2
    /\ hash = "2"
    /\ FragmentIndex = 1
    /\ activeIndex = Num(1)

\* ---------------------------------------------------------------------- C34
\* C34: a Build that yields at least one tab fires the notification of the
\* pair default-tab resolution names, also for pair 0 without a directive,
\* and fires it while the widget is not yet marked initialized; the Build
\* step as a whole fires that notification first and at most one more, the
\* one of the pair the URL fragment names.
C34_BuildNotifiesOnce ==
    /\ (op = "build" /\ N >= 1) =>
          /\ Len(events) \in {1, 2}
          /\ events[1] = ChangeOf(Resolution(State, defaultTab))
          /\ Len(events) = 2 =>
                /\ FragmentMatches
                /\ events[2] = ChangeOf(FragmentIndex)
    /\ frames > 0 =>
          \A token \in GeneratedIds :
              LET b == initializeTabs([State EXCEPT !.frames = @ - 1,
                                                    !.pendingInitializationFrame = FALSE],
                                      token)
              IN Len(b.tabs) >= 1 =>
                    /\ Len(b.events) = 1
                    /\ b.events[1].tabIndex = Num(Resolution(b, defaultTab))
                    /\ ~b.observed[1].initialized
                    /\ b.initialized

\* A Build has just run with no default-tab directive and no fragment: the
\* one notification is that of pair 0.
C34_Witness ==
    /\ op = "build"
    /\ N >= 1
    /\ defaultTab = Null
    /\ hash = ""
    /\ events = <<ChangeOf(0)>>
    /\ activeIndex = 0

\* ---------------------------------------------------------------------- C35
\* C35: with a listener that writes the notified index back to activeIndex,
\* every operation ends with the state and the notifications it has without
\* the listener and leaves no exception: the write-back fires no further
\* notification, for the activations of a built widget and for the Build.
C35_WriteBackTerminates ==
    changeListener = WriteBackListener =>
        /\ initialized =>
              \A i \in Indexes :
                  SameOutcome(setActiveIndex(State, Num(i)),
                              setActiveIndex(Unlistened, Num(i)))
        /\ frames > 0 =>
              \A token \in GeneratedIds :
                  SameOutcome(initializationFrame(State, token),
                              initializationFrame(Unlistened, token))

\* ---------------------------------------------------------------------- C36
\* No Build is outstanding and the pairs are those of the current content:
\* one pair per section heading, in order, on an initialized widget, or the
\* content shown untransformed when it has no heading.
Settled ==
    /\ frames = 0
    /\ ~pendingInitializationFrame
    /\ IF SectionHeadingCount(lightDom) > 0
       THEN /\ initialized
            /\ N = SectionHeadingCount(lightDom)
            /\ Len(tabpanels) = N
            /\ \A k \in 1..N : tabpanels[k].heading.originalId = SectionHeading(k).id
       ELSE Untransformed(State)

\* C36: if from some point on the element stays connected and its content
\* stays the same, then from some point on no Build is outstanding and the
\* widget shows that content: initialized with one pair per section heading,
\* or untransformed when the content has no heading.
C36_EventuallyBuilt ==
    (<>[]isConnected /\ <>[][lightDom' = lightDom]_vars) => <>[]Settled

\* A Build has just run on a connected widget over content with MaxSections
\* headings: nothing is outstanding and the pairs are those of the content.
C36_Witness ==
    /\ op = "build"
    /\ isConnected
    /\ SectionHeadingCount(lightDom) = MaxSections
    /\ Settled

\* ---------------------------------------------------------------------- C37
\* C37: whenever the heading scan finds a section tag in the assigned nodes,
\* the parser called on the same nodes with that tag returns at least one
\* section, so the Build never takes its "no section" exit; the state a Build
\* leaves is untransformed exactly when the scan found no heading, and
\* initialized with at least one pair otherwise.
C37_SectionsNeverEmpty ==
    LET nodes == assignedNodes(lightDom)
        tag == findHeadingTag(nodes, 1)
    IN /\ tag /= Null => Len(parseContentIntoSections(nodes, tag)) >= 1
       /\ op = "build" /\ isConnected =>
             /\ Untransformed(State) <=> tag = Null
             /\ tag /= Null => initialized /\ Len(tabpanels) >= 1

\* A Build has just run over content whose only heading is an HTML element,
\* tagName in upper case, after an element that is no heading: one pair.
C37_Witness ==
    /\ op = "build"
    /\ isConnected
    /\ lightDom = <<Element("P"), Heading("H2", "a", "")>>
    /\ findHeadingTag(assignedNodes(lightDom), 1) = "h2"
    /\ initialized
    /\ Len(tabpanels) = 1

====
